---- MODULE Spec2Model ----
(***************************************************************************)
(* Telemetry pipeline of the patient-monitoring platform.                  *)
(*                                                                         *)
(* SpecEnricher : telemetry-enrichment service: the kafkajs eachMessage    *)
(*                loop, EnrichmentService.enrichTelemetry and the Registry *)
(*                gRPC client with its retry loop.                         *)
(* SpecGateway  : telemetry-gateway service: the gRPC / HTTP controllers,  *)
(*                TelemetryService.processTelemetry, device verification   *)
(*                and KafkaService.produceRawTelemetry.                    *)
(***************************************************************************)
EXTENDS Integers, Sequences, FiniteSets, TLC

\* ------------------------------------------------------------------------
\* Bounds of the model
\* ------------------------------------------------------------------------
\* number of records the upstream stage appends to telemetry.normalized
MaxMsgs == 2
\* number of requests the gateway receives
MaxReqs == 2

\* ------------------------------------------------------------------------
\* JavaScript values
\* ------------------------------------------------------------------------
\* the JS value undefined (a missing field)
None == "<undefined>"

\* JS truthiness of a string-or-undefined value: undefined and "" are falsy
Truthy(v) == v # None /\ v # ""

\* a || b on string-or-undefined values
OrElse(a, b) == IF Truthy(a) THEN a ELSE b

\* values that keep their JS type, for the strict comparison ===
Num(n) == [t |-> "number", n |-> n, s |-> ""]
Str(s) == [t |-> "string", n |-> 0, s |-> s]

\* a === b : equal only when both the type and the value agree
StrictEq(a, b) == a.t = b.t /\ a.n = b.n /\ a.s = b.s

\* uuidv4(): the k-th identifier handed out, never handed out twice
UuidPool == << "u1", "u2", "u3", "u4", "u5", "u6", "u7", "u8", "u9", "u10", "u11", "u12" >>
uuidv4(k) == UuidPool[k]

\* `trace_${uuidv4()}`
TracePool == << "trace_u1", "trace_u2", "trace_u3", "trace_u4", "trace_u5", "trace_u6",
                "trace_u7", "trace_u8", "trace_u9", "trace_u10", "trace_u11", "trace_u12" >>
TraceOfUuid(k) == TracePool[k]

\* ------------------------------------------------------------------------
\* Registry gRPC client of the enrichment service
\* ------------------------------------------------------------------------
\* REGISTRY_MAX_RETRIES default
registryMaxRetries == 3

\* names of the registry.proto Status enum, by wire number
StatusNames == << "STATUS_SUCCESS", "STATUS_NOT_FOUND", "STATUS_INVALID_REQUEST", "STATUS_INTERNAL_ERROR" >>

\* protoLoader.loadSync(..., { enums: String }): an enum field of a decoded
\* message is the NAME of the enum value, a string
DecodeStatus(n) == Str(StatusNames[n])

\* What the Registry can answer to one call attempt: a gRPC error (with its
\* status code) or a response message carrying a Status enum (wire number)
\* and, for GetDevice, the patient_id of the device.
RpcErrors == { [kind |-> "error", code |-> c, status |-> 0, patient_id |-> ""] :
                 c \in {"UNAVAILABLE", "DEADLINE_EXCEEDED", "NOT_FOUND"} }
RpcResponses == { [kind |-> "response", code |-> "OK", status |-> st, patient_id |-> p] :
                    st \in 1..4, p \in {"", "P2"} }
Replies == RpcErrors \cup RpcResponses

\* the replies of a Registry that is down: an RPC error or a deadline
OutageReplies == { r \in RpcErrors : r.code \in {"UNAVAILABLE", "DEADLINE_EXCEEDED"} }

\* Outcome of the callback of one GetDevice / GetPatient /
\* GetThresholdProfile attempt: "value" (resolve with the entity), "null"
\* (resolve(null)) or "reject".
CallbackOutcome(r) ==
  IF r.kind = "error"
  THEN IF r.code = "NOT_FOUND" THEN "null" ELSE "reject"
  ELSE IF StrictEq(DecodeStatus(r.status), Num(1)) THEN "value"
       ELSE IF StrictEq(DecodeStatus(r.status), Num(2)) THEN "null"
       ELSE "reject"

\* callWithRetry: after a rejected attempt, another attempt is made while
\* attempt < maxRetries; otherwise lastError is thrown
RetryAgain(attempt) == attempt < registryMaxRetries

\* ------------------------------------------------------------------------
\* State
\* ------------------------------------------------------------------------
VARIABLES
  \* --- telemetry-enrichment ---
  normalized,        \* records of the telemetry.normalized partition
  offset,            \* committed offset of the consumer group (records consumed)
  enriched,          \* records of the telemetry.enriched partition
  pc,                \* position of the eachMessage callback
  cur,               \* locals of the running (or last) eachMessage invocation
  inflight,          \* sends handed to the producer and not yet settled
  uuid,              \* number of uuidv4() values handed out
  eRegistryEnabled,  \* ConfigService.registryEnabled of the enrichment service
  eIsConnected,      \* RegistryService.isConnected of the enrichment service
  \* --- telemetry-gateway ---
  raw,               \* records of the telemetry.raw partition
  gpc,               \* position of the request being served
  greq,              \* the request being served (or the last one) and its locals
  gresp,             \* the response to the last request
  served,            \* number of requests received
  guuid,             \* number of uuidv4() values handed out by the gateway
  gRegistryEnabled,  \* ConfigService.registryEnabled of the gateway
  gIsConnected,      \* RegistryService.isConnected of the gateway
  kafkaConnected,    \* KafkaService.isConnected of the gateway
  \* --- process shutdown (main.ts of the gateway and of the enrichment service) ---
  shut,              \* per process: signals received, armed timers, exit code
  \* --- incident-service ---
  iDelivered,        \* the alerts.raised messages handed to eachMessage, in order
  incidents,         \* rows of the incident table
  kafkaUp,           \* whether the Kafka brokers can be reached
  kBoot,             \* position of the module initialisation of the incident-service
  kSvc,              \* KafkaConsumerService: isConnected, messageHandler, connectionRetryAttempts
  kTask,             \* position of each asynchronous call chain started at initialisation
  kConsumer,         \* the kafkajs consumer: calls received, whether it is running
  \* --- notification-service ---
  nCalls,            \* the createFromAlert calls made, in order (history)
  notifications,     \* rows of the notifications table
  npc,               \* position of the running createFromAlert call
  nSend,             \* rows whose sendNotification has not yet updated them
  memStore,          \* RateLimitService.inMemoryStore
  redisStore,        \* the rate_limit:notification:<patient> keys in Redis
  redis,             \* whether RateLimitService.redis is defined
  now,               \* Date.now()
  nMax,              \* ConfigService.rateLimitMaxNotifications
  \* --- Normalizer ---
  zRaw,              \* records of the telemetry.raw partition read by the Normalizer
  zOffset,           \* committed offset of the Normalizer's consumer group
  zNormalized,       \* records the Normalizer has written to telemetry.normalized
  zFailures,         \* failed publishes of the Normalizer so far
  \* --- Rules Engine ---
  rEnriched,         \* records of the telemetry.enriched partition read by the Rules Engine
  rOffset,           \* committed offset of the Rules Engine's consumer group
  scored,            \* records of the telemetry.scored partition
  alertsRaised,      \* records of the alerts.raised partition
  rRuns              \* the handler runs of the Rules Engine, in order (history)

evars == << normalized, offset, enriched, pc, cur, inflight, uuid,
            eRegistryEnabled, eIsConnected >>

gvars == << raw, gpc, greq, gresp, served, guuid, gRegistryEnabled, gIsConnected,
            kafkaConnected >>

svars == << shut >>

\* the variables of everything but the Enricher and the Gateway
kvars == << kafkaUp, kBoot, kSvc, kTask, kConsumer >>

ivars == << iDelivered, incidents, kvars >>

nvars == << nCalls, notifications, npc, nSend, memStore, redisStore, redis, now, nMax >>

zvars == << zRaw, zOffset, zNormalized, zFailures >>

rvars == << rEnriched, rOffset, scored, alertsRaised, rRuns >>

ovars == << svars, ivars, nvars, zvars, rvars >>

\* the variables the shutdown handlers leave alone
notShutdown == << evars, gvars, ivars, nvars, zvars, rvars >>

\* the variables the incident-service leaves alone
notIncident == << evars, gvars, svars, nvars, zvars, rvars >>

\* the variables the notification-service leaves alone
notNotifier == << evars, gvars, svars, ivars, zvars, rvars >>

\* the variables the Normalizer leaves alone
notNormalizer == << evars, gvars, svars, ivars, nvars, rvars >>

\* the variables the Rules Engine leaves alone
notRules == << evars, gvars, svars, ivars, nvars, zvars >>

vars == << evars, gvars, ovars >>

\* ------------------------------------------------------------------------
\* telemetry.normalized records (written by the upstream stage)
\* ------------------------------------------------------------------------
\* a record without a value, and a record whose value is not JSON
NoValueMsg == [kind |-> "novalue", event_id |-> None, trace_id |-> None,
               device_id |-> None, patient_id |-> None, vitals |-> << >>,
               validation_status |-> None, normalization_metadata |-> None]
BadJsonMsg == [kind |-> "badjson", event_id |-> None, trace_id |-> None,
               device_id |-> None, patient_id |-> None, vitals |-> << >>,
               validation_status |-> None, normalization_metadata |-> None]

\* bodies of normalized events: the vitals with their values and units, and
\* the optional validation_status and normalization_metadata
BodyTemperature == [vitals |-> << [metric |-> "temperature", value |-> 37, unit |-> "celsius"] >>,
                    validation_status |-> "valid",
                    normalization_metadata |-> "converted_from_fahrenheit"]
BodyHeartRate == [vitals |-> << [metric |-> "heart_rate", value |-> 72, unit |-> "bpm"] >>,
                  validation_status |-> None,
                  normalization_metadata |-> None]

\* well-formed normalized events: two events of device D1, one of D2;
\* trace_id and patient_id may be missing
NormalizedEvents ==
  { [kind |-> "event", event_id |-> x[1], trace_id |-> t, device_id |-> x[2], patient_id |-> p,
     vitals |-> x[3].vitals, validation_status |-> x[3].validation_status,
     normalization_metadata |-> x[3].normalization_metadata] :
      x \in { <<"n1", "D1", BodyTemperature>>, <<"n2", "D1", BodyTemperature>>,
              <<"n3", "D2", BodyHeartRate>> },
      t \in { None, "trace_g1" },
      p \in { None, "P1" } }

NormalizedMsgs == NormalizedEvents \cup { NoValueMsg, BadJsonMsg }

\* ------------------------------------------------------------------------
\* EnrichmentService.enrichTelemetry
\* ------------------------------------------------------------------------
NoEvent == [event_id |-> None, trace_id |-> None, event_type |-> None,
            source_event_id |-> None, device_id |-> None, patient_id |-> None,
            orphan |-> FALSE, patientProfile |-> None, thresholds |-> None,
            vitals |-> << >>, enrichment_sources |-> << >>, in_offset |-> 0]

\* locals of an eachMessage invocation; calls, outage, failed and devicePid
\* are history of the invocation (which lookups reached the Registry,
\* whether every reply was an outage reply, which lookups threw, and the
\* patient the last GetDevice reply mapped the device to); deliveries counts
\* how often the runner has handed the record at idx to eachMessage)
IdleCur == [idx |-> 0, input |-> NoValueMsg, patientId |-> None, orphan |-> FALSE,
            patientProfile |-> None, thresholds |-> None, sources |-> << >>,
            attempt |-> 0, calls |-> {}, rpcs |-> {}, outage |-> TRUE, failed |-> {},
            devicePid |-> None, deliveries |-> 0,
            event |-> NoEvent, published |-> "none", outcome |-> "none"]

\* Faulty variant: every device the Registry does not map is an orphan.
ResolvePatient_ignoreInput(devPid, inputPid) ==
  IF Truthy(devPid)
  THEN [patientId |-> devPid, orphan |-> FALSE]
  ELSE [patientId |-> inputPid, orphan |-> TRUE]

\* Step 1 of enrichTelemetry. devPid is device.patient_id, or None when
\* getDevice returned null.
ResolvePatient(devPid, inputPid) ==
  IF Truthy(devPid)
  THEN [patientId |-> devPid, orphan |-> FALSE]
  ELSE [patientId |-> inputPid, orphan |-> ~Truthy(inputPid)]

\* Faulty variant: a fresh trace id for every event.
ExtractTraceId_fresh(ev, k) == TraceOfUuid(k)

\* const traceId = normalizedEvent.trace_id || `trace_${uuidv4()}`
ExtractTraceId(ev, k) == OrElse(ev.trace_id, TraceOfUuid(k))

\* number of uuidv4() calls made by the trace id extraction
TraceUuids(ev) == IF Truthy(ev.trace_id) THEN 0 ELSE 1

\* Faulty variant: the list of sources is written as collected.
SourcesOrNone_asCollected(src) == src

\* enrichmentSources.length > 0 ? enrichmentSources : ['none']
SourcesOrNone(src) == IF Len(src) > 0 THEN src ELSE << "none" >>

\* Faulty variant: the event keeps the id of its input and links to itself.
BuildEnrichedEvent_reuseId(c, k) ==
  [event_id        |-> c.input.event_id,
   trace_id        |-> ExtractTraceId(c.input, k + 1),
   event_type      |-> "telemetry.enriched",
   source_event_id |-> uuidv4(k + TraceUuids(c.input) + 1),
   device_id       |-> c.input.device_id,
   patient_id      |-> OrElse(c.patientId, None),
   orphan          |-> c.orphan,
   patientProfile  |-> c.patientProfile,
   thresholds      |-> c.thresholds,
   vitals          |-> c.input.vitals,
   enrichment_sources |-> SourcesOrNone(c.sources),
   in_offset       |-> c.idx]

\* Step 3 of enrichTelemetry: the enriched event built from the locals c,
\* k uuidv4() values having been handed out before. Of the body of the
\* input the object literal copies device_id and vitals; it has no
\* validation_status and no normalization_metadata. in_offset is not a
\* field of the payload: it records the offset of the consumed record.
BuildEnrichedEvent(c, k) ==
  [event_id        |-> uuidv4(k + TraceUuids(c.input) + 1),
   trace_id        |-> ExtractTraceId(c.input, k + 1),
   event_type      |-> "telemetry.enriched",
   source_event_id |-> c.input.event_id,
   device_id       |-> c.input.device_id,
   patient_id      |-> OrElse(c.patientId, None),
   orphan          |-> c.orphan,
   patientProfile  |-> c.patientProfile,
   thresholds      |-> c.thresholds,
   vitals          |-> c.input.vitals,
   enrichment_sources |-> SourcesOrNone(c.sources),
   in_offset       |-> c.idx]

\* ------------------------------------------------------------------------
\* Enricher: consumer loop (KafkaConsumerService.subscribe)
\* ------------------------------------------------------------------------
\* The upstream stage appends a record to telemetry.normalized.
ProduceNormalized ==
  /\ Len(normalized) < MaxMsgs
  /\ \E m \in NormalizedMsgs : normalized' = Append(normalized, m)
  /\ UNCHANGED << offset, enriched, pc, cur, inflight, uuid, eRegistryEnabled, eIsConnected, gvars, ovars >>

\* How the eachMessage promise settles for an invocation that ended with
\* the given outcome: the catch block logs and does not rethrow.
EachMessageSettles(outcome) == "resolved"

\* kafkajs runner, autoCommit left at its default: the offset of a record is
\* resolved and committed when eachMessage resolved; a rejected eachMessage
\* leaves the offset where it was and the record is fetched again.
CommitsOffset(settled) == settled = "resolved"

\* The runner invokes eachMessage for the next record of the partition.
\* A record without a value returns at once; a value that is not JSON makes
\* JSON.parse throw into the catch block; otherwise messageHandler(event),
\* i.e. enrichTelemetry, starts with getDevice.
FetchMessage ==
  /\ pc = "idle"
  /\ offset < Len(normalized)
  /\ LET m == normalized[offset + 1]
         c == [IdleCur EXCEPT !.idx = offset + 1, !.input = m,
                              !.deliveries = IF cur.idx = offset + 1 THEN cur.deliveries + 1 ELSE 1]
     IN CASE m.kind = "novalue" ->
               /\ cur' = [c EXCEPT !.outcome = "skipped"]
               /\ pc' = "returned"
          [] m.kind = "badjson" ->
               /\ cur' = [c EXCEPT !.outcome = "parse_error"]
               /\ pc' = "returned"
          [] OTHER ->
               /\ cur' = [c EXCEPT !.outcome = "running", !.attempt = 1,
                                   !.calls = {"GetDevice"}]
               /\ pc' = "getDevice"
  /\ UNCHANGED << normalized, offset, enriched, inflight, uuid, eRegistryEnabled, eIsConnected, gvars, ovars >>

\* eachMessage has settled: the runner commits or refetches.
EachMessageReturn ==
  /\ pc = "returned"
  /\ offset' = IF CommitsOffset(EachMessageSettles(cur.outcome)) THEN offset + 1 ELSE offset
  /\ pc' = "idle"
  /\ UNCHANGED << normalized, enriched, cur, inflight, uuid, eRegistryEnabled, eIsConnected, gvars, ovars >>

\* ------------------------------------------------------------------------
\* Enricher: the three Registry lookups
\* ------------------------------------------------------------------------
\* getDevice / getPatient / getThresholdProfile return null without a call
\* when the Registry is disabled or the client is not connected
LookupIsLocal == ~eRegistryEnabled \/ ~eIsConnected

\* The check is made once, before callWithRetry; an attempt made after the
\* client was closed can only fail.
AttemptReplies == IF eIsConnected THEN Replies ELSE OutageReplies

\* pc after step 1
AfterDevicePc(c) == IF Truthy(c.patientId) /\ ~c.orphan THEN "getPatient" ELSE "build"

\* locals after getDevice returned (devPid = None for a null device)
AfterDevice(c, devPid) ==
  LET r == ResolvePatient(devPid, c.input.patient_id)
  IN [c EXCEPT !.patientId = r.patientId, !.orphan = r.orphan, !.attempt = 1,
               !.calls = IF Truthy(r.patientId) /\ ~r.orphan
                         THEN c.calls \cup {"GetPatient"} ELSE c.calls]

\* locals after getPatient returned; has = the lookup returned a patient
AfterPatient(c, has) ==
  [c EXCEPT !.patientProfile = IF has THEN "profile" ELSE None,
            !.sources = IF has THEN Append(c.sources, "patient_registry") ELSE c.sources,
            !.attempt = 1,
            !.calls = c.calls \cup {"GetThresholdProfile"}]

\* locals after getThresholdProfile returned
AfterThreshold(c, has) ==
  [c EXCEPT !.thresholds = IF has THEN "thresholds" ELSE None,
            !.sources = IF has THEN Append(c.sources, "threshold_registry") ELSE c.sources]

\* Faulty variant: a failed step-2 lookup aborts the handler.
OnStep2Failure_fatal(c, name) ==
  [pc |-> "returned", cur |-> [c EXCEPT !.failed = c.failed \cup {name}, !.outcome = "raised"]]

\* getPatient or getThresholdProfile threw after its last attempt: the inner
\* catch of step 2 logs and the handler continues with step 3
OnStep2Failure(c, name) ==
  [pc |-> "build", cur |-> [c EXCEPT !.failed = c.failed \cup {name}]]

\* history of one reply
NoteReply(c, name, r) ==
  [c EXCEPT !.rpcs = c.rpcs \cup {name}, !.outage = c.outage /\ r \in OutageReplies]

\* the patient a GetDevice reply maps the device to: the patient_id of the
\* device of a response with status success (wire number 1), if it has one
MappedPatient(r) ==
  IF r.kind = "response" /\ r.status = 1 /\ Truthy(r.patient_id) THEN r.patient_id ELSE None

\* getDevice: one attempt of callWithRetry, or the local null
GetDevice ==
  /\ pc = "getDevice"
  /\ IF LookupIsLocal /\ cur.attempt = 1
     THEN /\ cur' = AfterDevice(cur, None)
          /\ pc' = AfterDevicePc(cur')
     ELSE \E r \in AttemptReplies :
            LET c == [NoteReply(cur, "GetDevice", r) EXCEPT !.devicePid = MappedPatient(r)]
                o == CallbackOutcome(r)
            IN CASE o = "value" ->
                      /\ cur' = AfterDevice(c, r.patient_id)
                      /\ pc' = AfterDevicePc(cur')
                 [] o = "null" ->
                      /\ cur' = AfterDevice(c, None)
                      /\ pc' = AfterDevicePc(cur')
                 [] OTHER ->
                      IF RetryAgain(c.attempt)
                      THEN /\ cur' = [c EXCEPT !.attempt = c.attempt + 1]
                           /\ pc' = pc
                      \* thrown out of enrichTelemetry (logged, rethrown by
                      \* its catch) into the catch block of eachMessage
                      ELSE /\ cur' = [c EXCEPT !.failed = c.failed \cup {"GetDevice"},
                                               !.outcome = "raised"]
                           /\ pc' = "returned"
  /\ UNCHANGED << normalized, offset, enriched, inflight, uuid, eRegistryEnabled, eIsConnected, gvars, ovars >>

\* getPatient: a throw is caught by the inner try of step 2, which then
\* skips getThresholdProfile
GetPatient ==
  /\ pc = "getPatient"
  /\ IF LookupIsLocal /\ cur.attempt = 1
     THEN /\ cur' = AfterPatient(cur, FALSE)
          /\ pc' = "getThreshold"
     ELSE \E r \in AttemptReplies :
            LET c == NoteReply(cur, "GetPatient", r)
                o == CallbackOutcome(r)
            IN CASE o = "value" ->
                      /\ cur' = AfterPatient(c, TRUE)
                      /\ pc' = "getThreshold"
                 [] o = "null" ->
                      /\ cur' = AfterPatient(c, FALSE)
                      /\ pc' = "getThreshold"
                 [] OTHER ->
                      IF RetryAgain(c.attempt)
                      THEN /\ cur' = [c EXCEPT !.attempt = c.attempt + 1]
                           /\ pc' = pc
                      ELSE /\ cur' = OnStep2Failure(c, "GetPatient").cur
                           /\ pc' = OnStep2Failure(c, "GetPatient").pc
  /\ UNCHANGED << normalized, offset, enriched, inflight, uuid, eRegistryEnabled, eIsConnected, gvars, ovars >>

GetThresholdProfile ==
  /\ pc = "getThreshold"
  /\ IF LookupIsLocal /\ cur.attempt = 1
     THEN /\ cur' = AfterThreshold(cur, FALSE)
          /\ pc' = "build"
     ELSE \E r \in AttemptReplies :
            LET c == NoteReply(cur, "GetThresholdProfile", r)
                o == CallbackOutcome(r)
            IN CASE o = "value" ->
                      /\ cur' = AfterThreshold(c, TRUE)
                      /\ pc' = "build"
                 [] o = "null" ->
                      /\ cur' = AfterThreshold(c, FALSE)
                      /\ pc' = "build"
                 [] OTHER ->
                      IF RetryAgain(c.attempt)
                      THEN /\ cur' = [c EXCEPT !.attempt = c.attempt + 1]
                           /\ pc' = pc
                      ELSE /\ cur' = OnStep2Failure(c, "GetThresholdProfile").cur
                           /\ pc' = OnStep2Failure(c, "GetThresholdProfile").pc
  /\ UNCHANGED << normalized, offset, enriched, inflight, uuid, eRegistryEnabled, eIsConnected, gvars, ovars >>

\* RegistryService.onModuleDestroy: the client is closed at shutdown
RegistryOnModuleDestroy ==
  /\ eIsConnected
  /\ eIsConnected' = FALSE
  /\ UNCHANGED << normalized, offset, enriched, pc, cur, inflight, uuid, eRegistryEnabled, gvars, ovars >>

\* ------------------------------------------------------------------------
\* Enricher: build and publish
\* ------------------------------------------------------------------------
\* Faulty variant: the send is not awaited.
AfterProduceCallPc_noawait == "returned"

\* await this.kafkaProducer.produceEnrichedTelemetry(enrichedEvent): the
\* handler is suspended until the send has settled
AfterProduceCallPc == "awaitPublish"

\* Steps 3 and 4: build the event and hand it to the producer.
BuildAndProduce ==
  /\ pc = "build"
  /\ LET e == BuildEnrichedEvent(cur, uuid)
     IN /\ uuid' = uuid + TraceUuids(cur.input) + 1
        /\ inflight' = inflight \cup {e}
        /\ pc' = AfterProduceCallPc
        /\ cur' = [cur EXCEPT !.event = e, !.published = "pending",
                              !.outcome = IF pc' = "returned" THEN "ok" ELSE @]
  /\ UNCHANGED << normalized, offset, enriched, eRegistryEnabled, eIsConnected, gvars, ovars >>

\* KafkaProducerService.produceEnrichedTelemetry, settled by the broker:
\* the record is appended to telemetry.enriched and acknowledged, and the
\* awaiting handler logs success and returns.
PublishAck ==
  \E e \in inflight :
    /\ enriched' = Append(enriched, e)
    /\ inflight' = inflight \ {e}
    /\ IF pc = "awaitPublish" /\ cur.event = e
       THEN /\ cur' = [cur EXCEPT !.published = "ok", !.outcome = "ok"]
            /\ pc' = "returned"
       ELSE UNCHANGED << cur, pc >>
    /\ UNCHANGED << normalized, offset, uuid, eRegistryEnabled, eIsConnected, gvars, ovars >>

\* The send fails for good: produceEnrichedTelemetry throws, enrichTelemetry
\* logs and rethrows into the catch block of eachMessage.
PublishFail ==
  \E e \in inflight :
    /\ inflight' = inflight \ {e}
    /\ IF pc = "awaitPublish" /\ cur.event = e
       THEN /\ cur' = [cur EXCEPT !.published = "failed", !.outcome = "raised",
                                  !.failed = @ \cup {"Produce"}]
            /\ pc' = "returned"
       ELSE UNCHANGED << cur, pc >>
    /\ UNCHANGED << normalized, offset, enriched, uuid, eRegistryEnabled, eIsConnected, gvars, ovars >>

\* ------------------------------------------------------------------------
\* Gateway: requests, events and responses
\* ------------------------------------------------------------------------
NoReply == [kind |-> "none", code |-> "", status |-> 0, patient_id |-> ""]

NoRawEvent == [event_id |-> None, trace_id |-> None, event_type |-> None,
               timestamp |-> None, device_id |-> None, measurements |-> << >>]

\* no SendMeasurements message (the request came over HTTP)
NoGrpcData == [device_id |-> None, timestamp |-> None, measurements |-> << >>]

\* a request and the locals of its processing: the DTO (deviceId, timestamp,
\* metrics), the event, the attempt counter of produceRawTelemetry. History
\* of the request: data (the SendMeasurements message as received), checked
\* (verifyDevice has returned), called (it called the Registry), reply,
\* produceCalls, delays (the waits between the sends), sendFailures (sends
\* that threw) and rawBefore (length of the topic when the request arrived)
IdleReq == [surface |-> "none", deviceId |-> None, timestamp |-> None, metrics |-> {},
            data |-> NoGrpcData,
            checked |-> FALSE, reply |-> NoReply, called |-> FALSE, verified |-> FALSE,
            event |-> NoRawEvent, attempt |-> 0, produceCalls |-> 0,
            delays |-> << >>, sendFailures |-> 0, rawBefore |-> 0]

NoResp == [surface |-> "none", http |-> 0, status |-> 0, success |-> FALSE,
           eventId |-> None, message |-> ""]

\* the gateway, not started (used while the Enricher is studied alone)
GatewayAtRest ==
  /\ raw = << >>
  /\ gpc = "idle"
  /\ greq = IdleReq
  /\ gresp = NoResp
  /\ served = 0
  /\ guuid = 0
  /\ gRegistryEnabled = FALSE
  /\ gIsConnected = FALSE
  /\ kafkaConnected = FALSE

\* the enrichment service, not started (used while the Gateway is studied alone)
EnricherAtRest ==
  /\ normalized = << >>
  /\ offset = 0
  /\ enriched = << >>
  /\ pc = "idle"
  /\ cur = IdleCur
  /\ inflight = {}
  /\ uuid = 0
  /\ eRegistryEnabled = FALSE
  /\ eIsConnected = FALSE

\* ------------------------------------------------------------------------
\* The other processes, not started
\* ------------------------------------------------------------------------
\* the two processes whose main.ts installs a shutdown handler
Procs == { "gateway", "enrichment" }

\* a process that runs and has received no signal
\* (code is the argument of process.exit once exited is TRUE)
Running == [received |-> << >>, timers |-> 0, exited |-> FALSE, code |-> 0, how |-> "none"]

ShutdownAtRest == shut = [p \in Procs |-> Running]

\* the asynchronous call chains started by the two onModuleInit hooks of the
\* incident-service: connectWithRetry() of KafkaConsumerService.onModuleInit
\* ("init"), subscribe() of setMessageHandler ("handler") and
\* startConsuming() ("start")
KafkaTasks == { "init", "handler", "start" }

\* a chain that has not been started; tail tells a subscribe() called from
\* connect() (FALSE) from one called by setMessageHandler or by the end of
\* startConsuming (TRUE)
NoTask == [pc |-> "none", tail |-> FALSE]

DoneTask == [pc |-> "done", tail |-> FALSE]

\* KafkaConsumerService as constructed
NewKafkaConsumerService ==
  [isConnected |-> FALSE, messageHandler |-> FALSE, connectionRetryAttempts |-> 0]

\* the kafkajs consumer as constructed
NewConsumer == [connectCalls |-> 0, subscribeCalls |-> 0, runCalls |-> 0, running |-> FALSE]

KafkaConsumerNotStarted ==
  /\ kBoot = "boot"
  /\ kSvc = NewKafkaConsumerService
  /\ kTask = [t \in KafkaTasks |-> NoTask]
  /\ kConsumer = NewConsumer

IncidentAtRest ==
  /\ iDelivered = << >>
  /\ incidents = << >>
  /\ kafkaUp = FALSE
  /\ KafkaConsumerNotStarted

Patients == { "P1", "P2" }

\* a patient without entry in a rate-limit store
NoLimitEntry == [count |-> 0, resetAt |-> 0]

NotifierAtRest ==
  /\ nCalls = << >>
  /\ notifications = << >>
  /\ npc = "idle"
  /\ nSend = {}
  /\ memStore = [p \in Patients |-> NoLimitEntry]
  /\ redisStore = [p \in Patients |-> NoLimitEntry]
  /\ redis = FALSE
  /\ now = 0
  /\ nMax = 1

NormalizerAtRest ==
  /\ zRaw = << >>
  /\ zOffset = 0
  /\ zNormalized = << >>
  /\ zFailures = 0

RulesAtRest ==
  /\ rEnriched = << >>
  /\ rOffset = 0
  /\ scored = << >>
  /\ alertsRaised = << >>
  /\ rRuns = << >>

OthersAtRest ==
  /\ ShutdownAtRest
  /\ IncidentAtRest
  /\ NotifierAtRest
  /\ NormalizerAtRest
  /\ RulesAtRest

\* ------------------------------------------------------------------------
\* Specification of the Enricher
\* ------------------------------------------------------------------------
\* After module initialisation: RegistryService.onModuleInit connects when
\* the Registry is enabled (a failed connect throws and aborts the start).
InitEnricher ==
  /\ normalized = << >>
  /\ offset = 0
  /\ enriched = << >>
  /\ pc = "idle"
  /\ cur = IdleCur
  /\ inflight = {}
  /\ uuid = 0
  /\ eRegistryEnabled \in BOOLEAN
  /\ eIsConnected = eRegistryEnabled
  /\ GatewayAtRest
  /\ OthersAtRest

NextEnricher ==
  \/ ProduceNormalized
  \/ FetchMessage
  \/ GetDevice
  \/ GetPatient
  \/ GetThresholdProfile
  \/ BuildAndProduce
  \/ PublishAck
  \/ PublishFail
  \/ EachMessageReturn
  \/ RegistryOnModuleDestroy

SpecEnricher == InitEnricher /\ [][NextEnricher]_vars

\* ------------------------------------------------------------------------
\* Properties of the Enricher
\* ------------------------------------------------------------------------
\* the enriched records derived from the record at offset i
EnrichedOf(i) == { j \in 1..Len(enriched) : enriched[j].in_offset = i }

\* the eachMessage invocation for cur.idx has ended
RunEnded == pc \in {"returned", "idle"} /\ cur.idx > 0

Step2Lookups == {"GetPatient", "GetThresholdProfile"}

\* C1: whenever enrichTelemetry raised for a consumed record, the offset of
\* that record is not committed (the record will be delivered again).
C1_RaiseNotCommitted ==
  (cur.outcome = "raised") => (offset < cur.idx)

\* C2: every committed well-formed normalized record has an enriched record
\* derived from it (source_event_id = its event_id) on telemetry.enriched.
C2_CommitOnlyAfterPublish ==
  \A i \in 1..offset :
    normalized[i].kind = "event" =>
      \E j \in EnrichedOf(i) : enriched[j].source_event_id = normalized[i].event_id

\* C3: when every Registry reply of an invocation was an RPC error or a
\* deadline and the input carries no patient_id, the invocation (the broker
\* accepting the publish) yields exactly one enriched record, an orphan
\* without patientProfile and thresholds and with enrichment_sources ["none"].
C3_OutageYieldsOrphan ==
  ( /\ RunEnded
    /\ cur.input.kind = "event"
    /\ ~Truthy(cur.input.patient_id)
    /\ cur.rpcs # {}
    /\ cur.outage
    /\ "Produce" \notin cur.failed )
  => /\ Cardinality(EnrichedOf(cur.idx)) = 1
     /\ \A j \in EnrichedOf(cur.idx) :
          /\ enriched[j].orphan
          /\ enriched[j].patientProfile = None
          /\ enriched[j].thresholds = None
          /\ enriched[j].enrichment_sources = << "none" >>

EnrichedEvents ==
  { enriched[j] : j \in 1..Len(enriched) } \cup inflight
    \cup (IF cur.event # NoEvent THEN {cur.event} ELSE {})

\* C5: in every enriched event orphan is set exactly when the event has no
\* patient_id; an orphan event has neither patientProfile nor thresholds,
\* and neither getPatient nor getThresholdProfile was called for its input.
C5_OrphanConsistency ==
  /\ \A e \in EnrichedEvents :
       /\ e.orphan <=> (e.patient_id = None)
       /\ e.orphan => (e.patientProfile = None /\ e.thresholds = None)
  /\ (cur.event # NoEvent /\ cur.event.orphan) => (cur.calls \cap Step2Lookups = {})
  /\ (cur.event # NoEvent /\ ~cur.event.orphan) => ("GetPatient" \in cur.calls)

C5_Witness ==
  /\ cur.event # NoEvent
  /\ cur.event.orphan
  /\ cur.event \in { enriched[j] : j \in 1..Len(enriched) }
  /\ \E j \in 1..Len(enriched) : ~enriched[j].orphan

C7_SourceLinkage ==
  /\ \A j \in 1..Len(enriched) :
       LET e  == enriched[j]
           in == normalized[e.in_offset]
       IN /\ e.source_event_id = in.event_id
          /\ e.event_id # in.event_id
          /\ e.event_id # None
          /\ e.event_type = "telemetry.enriched"
  /\ \A j1, j2 \in 1..Len(enriched) :
       enriched[j1].event_id = enriched[j2].event_id => j1 = j2

C7_Witness ==
  /\ Len(enriched) = 2
  /\ enriched[1].source_event_id = enriched[2].source_event_id
  /\ enriched[1].in_offset # enriched[2].in_offset

\* C8: enriched events of one device appear in the order of their inputs,
\* and no record is handled while the publish for an earlier one is still
\* in flight: the only send in flight is the one the handler awaits.
C8_PerDeviceOrder ==
  /\ \A j1, j2 \in 1..Len(enriched) :
       (j1 < j2 /\ enriched[j1].device_id = enriched[j2].device_id)
         => enriched[j1].in_offset < enriched[j2].in_offset
  /\ inflight # {} => (pc = "awaitPublish" /\ inflight = {cur.event})

C8_Witness ==
  /\ Len(enriched) = 2
  /\ enriched[1].device_id = enriched[2].device_id
  /\ enriched[1].source_event_id # enriched[2].source_event_id

\* C19: when the last GetDevice reply mapped the device to a patient, the
\* invocation (the broker accepting the publish) yields an enriched event
\* with that patient_id, whatever the input carries; when it did not, the
\* enriched event has the patient_id of the input, and none if the input
\* has none.
C19_PatientIdPrecedence ==
  /\ ( /\ RunEnded
       /\ cur.input.kind = "event"
       /\ Truthy(cur.devicePid)
       /\ "Produce" \notin cur.failed )
     => \E j \in EnrichedOf(cur.idx) : enriched[j].patient_id = cur.devicePid
  /\ ~Truthy(cur.devicePid)
     => \A j \in EnrichedOf(cur.idx) :
          enriched[j].patient_id = OrElse(cur.input.patient_id, None)

\* the value of a field of a JSON object, undefined when it has none
Field(obj, name) == IF name \in DOMAIN obj THEN obj[name] ELSE None

\* the fields of the body of a normalized event
BodyFields == { "device_id", "vitals", "validation_status", "normalization_metadata" }

\* C20: every enriched event has the fields of the body of the normalized
\* event it was derived from, with the same values.
C20_InputCarriedUnchanged ==
  \A j \in 1..Len(enriched) :
    \A f \in BodyFields :
      Field(enriched[j], f) = Field(normalized[enriched[j].in_offset], f)

\* two enriched events derived from equal normalized records. (No answer
\* of the Registry reaches an enriched event, a response that carries data
\* being rejected by the client, so that nothing need be assumed of the
\* answers the two runs got.)
SameInput(j1, j2) ==
  /\ j1 # j2
  /\ normalized[enriched[j1].in_offset] = normalized[enriched[j2].in_offset]

\* the fields of an enriched event that do not name the event itself
\* (event_id) or the time of its making
StableFields == { "source_event_id", "event_type", "device_id", "patient_id", "orphan",
                  "patientProfile", "thresholds", "vitals", "enrichment_sources" }

C22_LookupAttempts ==
  /\ cur.attempt <= registryMaxRetries
  /\ (pc = "returned" /\ "GetDevice" \in cur.failed) => cur.attempt = registryMaxRetries
  /\ ~(pc = "getDevice" /\ cur.attempt > 1 /\ Truthy(cur.devicePid))

\* C23: a record whose value failed to parse is committed (dropped) only
\* when it has been delivered 8 times.
C23_PoisonDroppedAfterN ==
  (cur.outcome = "parse_error" /\ offset >= cur.idx) => cur.deliveries = 8

\* C33: in every enriched event enrichment_sources lists patient_registry
\* exactly when the event has a patientProfile, lists threshold_registry
\* exactly when it has thresholds, is ["none"] exactly when it has neither,
\* and is never empty.
SourcesList(e) == { e.enrichment_sources[i] : i \in 1..Len(e.enrichment_sources) }

C33_SourcesMatchFields ==
  \A e \in EnrichedEvents :
    /\ ("patient_registry" \in SourcesList(e)) <=> (e.patientProfile # None)
    /\ ("threshold_registry" \in SourcesList(e)) <=> (e.thresholds # None)
    /\ (e.enrichment_sources = << "none" >>)
         <=> (e.patientProfile = None /\ e.thresholds = None)
    /\ Len(e.enrichment_sources) > 0

\* a published event of a non-orphan input for which both step-2 lookups
\* were answered by the Registry without a patient and without thresholds
C33_Witness ==
  /\ RunEnded
  /\ cur.published = "ok"
  /\ ~cur.event.orphan
  /\ Step2Lookups \subseteq cur.rpcs
  /\ cur.failed = {}
  /\ \E j \in EnrichedOf(cur.idx) : enriched[j].enrichment_sources = << "none" >>

\* C34: when getPatient threw after its last attempt, getThresholdProfile is
\* called all the same before the enriched event is built.
C34_ThresholdsAfterPatientFailure ==
  (cur.event # NoEvent /\ "GetPatient" \in cur.failed)
    => "GetThresholdProfile" \in cur.calls

\* ------------------------------------------------------------------------
\* Gateway: device verification (RegistryService.verifyDevice)
\* ------------------------------------------------------------------------
\* the gateway loads registry.proto with { enums: String } as well
GatewayDecodeStatus(n) == Str(StatusNames[n])

\* what the Registry can answer to the gateway's GetDevice call
GatewayReplies == { r \in Replies : r.patient_id = "" }

\* Faulty variant: an RPC error rejects the device (fail closed).
VerifyCallback_failClosed(r) ==
  IF r.kind = "error" THEN FALSE
  ELSE StrictEq(GatewayDecodeStatus(r.status), Num(1))

\* The GetDevice callback of verifyDevice: an RPC error (of any code, a
\* deadline included) lets the request through; a response verifies the
\* device when response.status === 1 and rejects it otherwise.
VerifyCallback(r) ==
  IF r.kind = "error" THEN TRUE
  ELSE StrictEq(GatewayDecodeStatus(r.status), Num(1))

\* verifyDevice returns true without a call when verification is disabled or
\* the client is not connected
VerifyIsLocal == ~gRegistryEnabled \/ ~gIsConnected

\* ------------------------------------------------------------------------
\* Gateway: TelemetryService
\* ------------------------------------------------------------------------
\* `evt_${uuidv4()}`
EvtPool == << "evt_u1", "evt_u2", "evt_u3", "evt_u4", "evt_u5", "evt_u6",
              "evt_u7", "evt_u8", "evt_u9", "evt_u10", "evt_u11", "evt_u12" >>
EvtOfUuid(k) == EvtPool[k]

\* new Date().toISOString() at the time of the call
Now == "<now>"

\* The metrics object of a DTO is the set of its entries << key, value >>,
\* at most one per key; a key without an entry is undefined.
HasMetric(metrics, key) == \E p \in metrics : p[1] = key
MetricValue(metrics, key) == (CHOOSE p \in metrics : p[1] = key)[2]

\* metrics[key] = value
SetMetric(metrics, key, value) == { p \in metrics : p[1] # key } \cup { << key, value >> }

\* the entry transformToKafkaEvent pushes for the DTO key, with its unit
MeasurementOf(metrics, key, name, unit) ==
  IF HasMetric(metrics, key)
  THEN << [metric |-> name, value |-> MetricValue(metrics, key), unit |-> unit] >>
  ELSE << >>

\* Faulty variant: the heart rate is pushed under the name of the oxygen
\* saturation, and the oxygen saturation is not pushed.
Measurements_mislabelled(metrics) ==
  MeasurementOf(metrics, "hr", "oxygen_saturation", "percent")
  \o MeasurementOf(metrics, "temp", "temperature", "fahrenheit")

\* the measurements array of transformToKafkaEvent, in the order hr, spo2, temp
Measurements(metrics) ==
  MeasurementOf(metrics, "hr", "heart_rate", "bpm")
  \o MeasurementOf(metrics, "spo2", "oxygen_saturation", "percent")
  \o MeasurementOf(metrics, "temp", "temperature", "fahrenheit")

\* transformToKafkaEvent, k uuidv4() values having been handed out before;
\* it throws when Measurements(q.metrics) is empty
TransformToKafkaEvent(q, k) ==
  [event_id     |-> EvtOfUuid(k + 1),
   trace_id     |-> TraceOfUuid(k + 2),
   event_type   |-> "telemetry.raw",
   timestamp    |-> OrElse(q.timestamp, Now),
   device_id    |-> q.deviceId,
   measurements |-> Measurements(q.metrics)]

\* error messages
MsgDeviceNotFound == "Device <deviceId> not found in registry"
MsgNoMetric == "At least one metric must be provided"
MsgNotConnected == "Kafka producer is not connected"
\* messages of the errors a failed producer.send can throw
BrokerErrorMessages == { "Request timed out", "Broker not found in the cached metadata" }

\* error.message.includes('not found') and error.message.includes('validation')
IncludesNotFound(msg) == msg \in { MsgDeviceNotFound, "Broker not found in the cached metadata" }
IncludesValidation(msg) == FALSE

\* the status sendMeasurements derives from the message of the caught error
GrpcStatusOf(msg) ==
  IF IncludesNotFound(msg) THEN 3
  ELSE IF IncludesValidation(msg) THEN 2
  ELSE 4

\* the response of the controller that caught an error: sendMeasurements
\* returns a status derived from the message, receiveTelemetry throws
\* BadRequestException (HTTP 400)
ErrorResponse(surface, msg) ==
  [surface |-> surface,
   http    |-> IF surface = "http" THEN 400 ELSE 0,
   status  |-> IF surface = "grpc" THEN GrpcStatusOf(msg) ELSE 0,
   success |-> FALSE,
   eventId |-> IF surface = "grpc" THEN "" ELSE None,
   message |-> msg]

\* the response of the controller after processTelemetry returned
SuccessResponse(surface, eventId) ==
  [surface |-> surface,
   http    |-> IF surface = "http" THEN 200 ELSE 0,
   status  |-> IF surface = "grpc" THEN 1 ELSE 0,
   success |-> TRUE,
   eventId |-> eventId,
   message |-> IF surface = "grpc" THEN "Measurements received and processed"
               ELSE "Telemetry received and processed"]

\* Faulty variant: the result of verifyDevice is ignored.
Rejects_never(verified) == FALSE

\* if (!deviceVerified) throw new Error(`Device ... not found in registry`)
Rejects(verified) == ~verified

\* processTelemetry from the result of verifyDevice on: reject, or build the
\* event and enter produceRawTelemetry. Gives the next position, the locals,
\* the response (when the request ends here) and the uuid counter.
AfterVerify(q0, verified, k) ==
  LET q == [q0 EXCEPT !.verified = verified]
      e == TransformToKafkaEvent(q, k)
  IN IF Rejects(verified)
     THEN [gpc |-> "idle", greq |-> q, gresp |-> ErrorResponse(q.surface, MsgDeviceNotFound),
           guuid |-> k]
     ELSE IF Len(e.measurements) = 0
     THEN [gpc |-> "idle", greq |-> q, gresp |-> ErrorResponse(q.surface, MsgNoMetric),
           guuid |-> k + 2]
     ELSE IF ~kafkaConnected
     THEN [gpc |-> "idle", greq |-> [q EXCEPT !.event = e, !.produceCalls = 1],
           gresp |-> ErrorResponse(q.surface, MsgNotConnected), guuid |-> k + 2]
     ELSE [gpc |-> "produce", greq |-> [q EXCEPT !.event = e, !.produceCalls = 1, !.attempt = 1],
           gresp |-> gresp, guuid |-> k + 2]

\* ------------------------------------------------------------------------
\* Gateway: ingress
\* ------------------------------------------------------------------------
IsoTimestamp == "2024-01-15T10:30:00.000Z"

\* bodies of POST /api/telemetry: two well-formed ones, and one each
\* without deviceId, with a timestamp that is not ISO-8601, without a metric
HttpBodies ==
  { [deviceId |-> "D1", timestamp |-> IsoTimestamp, metrics |-> { <<"hr", 72>>, <<"temp", 99>> }],
    [deviceId |-> "D2", timestamp |-> IsoTimestamp, metrics |-> { <<"spo2", 98>> }],
    [deviceId |-> None, timestamp |-> IsoTimestamp, metrics |-> { <<"hr", 72>>, <<"temp", 99>> }],
    [deviceId |-> "D1", timestamp |-> "yesterday",  metrics |-> { <<"hr", 72>>, <<"temp", 99>> }],
    [deviceId |-> "D1", timestamp |-> IsoTimestamp, metrics |-> {}] }

\* measurements of SendMeasurements requests
HeartRates == << [metric |-> "HR", value |-> 72, unit |-> "bpm"],
                 [metric |-> "pulse", value |-> 70, unit |-> "bpm"] >>
TempCelsius == << [metric |-> "temperature", value |-> 37, unit |-> "celsius"] >>
TempFahrenheit == << [metric |-> "temp", value |-> 99, unit |-> "fahrenheit"] >>

\* SendMeasurements requests: three well-formed ones, one without timestamp
\* (the field is optional on the wire), and one each without device_id,
\* with a timestamp that is not ISO-8601, without measurements
GrpcRequests ==
  { [device_id |-> "D1", timestamp |-> IsoTimestamp, measurements |-> HeartRates],
    [device_id |-> "D1", timestamp |-> IsoTimestamp, measurements |-> TempCelsius],
    [device_id |-> "D2", timestamp |-> IsoTimestamp, measurements |-> TempFahrenheit],
    [device_id |-> "D1", timestamp |-> "",           measurements |-> HeartRates],
    [device_id |-> "",   timestamp |-> IsoTimestamp, measurements |-> HeartRates],
    [device_id |-> "D1", timestamp |-> "yesterday",  measurements |-> TempCelsius],
    [device_id |-> "D1", timestamp |-> IsoTimestamp, measurements |-> << >>] }

\* measurement.metric?.toLowerCase()
ToLowerCase(name) == IF name = "HR" THEN "hr" ELSE name

\* the metrics key transformGrpcToDto sets for a measurement name ("" for none)
MetricKey(name) ==
  LET n == ToLowerCase(name)
  IN IF n \in {"heart_rate", "hr"} THEN "hr"
     ELSE IF n \in {"oxygen_saturation", "spo2"} THEN "spo2"
     ELSE IF n \in {"temperature", "temp"} THEN "temp"
     ELSE ""

\* the loop of transformGrpcToDto over data.measurements: a measurement
\* with a known name sets its key to measurement.value (a later one
\* overwrites an earlier one), its unit is not read
RECURSIVE MetricsOf(_)
MetricsOf(ms) ==
  IF ms = << >> THEN {}
  ELSE LET before == MetricsOf(SubSeq(ms, 1, Len(ms) - 1))
           m      == ms[Len(ms)]
           key    == MetricKey(m.metric)
       IN IF key = "" THEN before ELSE SetMetric(before, key, m.value)

\* transformGrpcToDto
TransformGrpcToDto(data) ==
  [deviceId  |-> data.device_id,
   timestamp |-> OrElse(data.timestamp, Now),
   metrics   |-> MetricsOf(data.measurements)]

\* The global ValidationPipe on the TelemetryDto of the HTTP surface:
\* deviceId a non-empty string, timestamp an ISO-8601 string
ValidationPasses(dto) ==
  /\ Truthy(dto.deviceId)
  /\ dto.timestamp = IsoTimestamp

\* POST /api/telemetry
ReceiveHttp ==
  /\ gpc = "idle"
  /\ served < MaxReqs
  /\ served' = served + 1
  /\ \E dto \in HttpBodies :
       LET q == [IdleReq EXCEPT !.surface = "http", !.deviceId = dto.deviceId,
                                !.timestamp = dto.timestamp, !.metrics = dto.metrics,
                                !.rawBefore = Len(raw)]
       IN /\ greq' = q
          /\ IF ValidationPasses(dto)
             THEN /\ gpc' = "verify"
                  /\ gresp' = NoResp
             ELSE /\ gpc' = "idle"
                  /\ gresp' = ErrorResponse("http", "Bad Request")
  /\ UNCHANGED << raw, guuid, gRegistryEnabled, gIsConnected, kafkaConnected, evars, ovars >>

\* TelemetryGateway.SendMeasurements
ReceiveGrpc ==
  /\ gpc = "idle"
  /\ served < MaxReqs
  /\ served' = served + 1
  /\ \E data \in GrpcRequests :
       LET dto == TransformGrpcToDto(data)
       IN greq' = [IdleReq EXCEPT !.surface = "grpc", !.deviceId = dto.deviceId,
                                  !.timestamp = dto.timestamp, !.metrics = dto.metrics,
                                  !.data = data, !.rawBefore = Len(raw)]
  /\ gpc' = "verify"
  /\ gresp' = NoResp
  /\ UNCHANGED << raw, guuid, gRegistryEnabled, gIsConnected, kafkaConnected, evars, ovars >>

\* processTelemetry: verifyDevice, then transformToKafkaEvent and the entry
\* of produceRawTelemetry
VerifyDevice ==
  /\ gpc = "verify"
  /\ \E r \in (IF VerifyIsLocal THEN {NoReply} ELSE GatewayReplies) :
       LET verified == IF VerifyIsLocal THEN TRUE ELSE VerifyCallback(r)
           q == [greq EXCEPT !.checked = TRUE, !.reply = r, !.called = ~VerifyIsLocal]
           n == AfterVerify(q, verified, guuid)
       IN /\ gpc' = n.gpc
          /\ greq' = n.greq
          /\ gresp' = n.gresp
          /\ guuid' = n.guuid
  /\ UNCHANGED << raw, served, gRegistryEnabled, gIsConnected, kafkaConnected, evars, ovars >>

\* ------------------------------------------------------------------------
\* Gateway: KafkaService.produceRawTelemetry
\* ------------------------------------------------------------------------
\* const maxRetries = 3
produceMaxRetries == 3

\* retry options of the kafkajs client (new Kafka({ retry: ... })); they
\* govern the retries the client makes inside one producer.send call
kafkaRetry == [retries |-> 8, initialRetryTime |-> 100, multiplier |-> 2, maxRetryTime |-> 30000]

Min(a, b) == IF a < b THEN a ELSE b

\* Faulty variant: the backoff of the client options.
BackoffDelay_client(attempt) ==
  Min(kafkaRetry.initialRetryTime * kafkaRetry.multiplier ^ (attempt - 1), kafkaRetry.maxRetryTime)

\* Math.min(1000 * Math.pow(2, attempt - 1), 5000): the wait after the
\* failed send number `attempt`
BackoffDelay(attempt) == Min(1000 * 2 ^ (attempt - 1), 5000)

\* Faulty variant: the record is keyed by the id of the event.
RawRecord_keyedByEvent(e) == [key |-> e.event_id, value |-> e]

\* the record sent for an event: key = event.device_id, value = the event
RawRecord(e) == [key |-> e.device_id, value |-> e]

\* One attempt of the retry loop. The broker writes and acknowledges the
\* record ("ack"), fails without writing it ("error"), or writes it while
\* the send still fails, the acknowledgement being lost ("lost"). A failed
\* send is followed by a wait and the next attempt, the last one by the
\* throw of lastError. Every attempt is a producer.send call of its own
\* with the same serialized event: the gateway keeps no record of what the
\* broker has written, and the sequence numbers of the idempotent producer
\* ({ idempotent: true, maxInFlightRequests: 1 }) identify the batches of a
\* producer session, not the event_id of a payload.
ProduceAttempt ==
  /\ gpc = "produce"
  /\ \E o \in {"ack", "error", "lost"}, msg \in BrokerErrorMessages :
       /\ raw' = IF o = "error" THEN raw ELSE Append(raw, RawRecord(greq.event))
       /\ IF o = "ack"
          THEN /\ gpc' = "idle"
               /\ gresp' = SuccessResponse(greq.surface, greq.event.event_id)
               /\ greq' = greq
          ELSE IF greq.attempt < produceMaxRetries
          THEN /\ gpc' = "produce"
               /\ gresp' = gresp
               /\ greq' = [greq EXCEPT !.attempt = @ + 1, !.sendFailures = @ + 1,
                                       !.delays = Append(@, BackoffDelay(greq.attempt))]
          ELSE /\ gpc' = "idle"
               /\ gresp' = ErrorResponse(greq.surface, msg)
               /\ greq' = [greq EXCEPT !.sendFailures = @ + 1]
  /\ UNCHANGED << served, guuid, gRegistryEnabled, gIsConnected, kafkaConnected, evars, ovars >>

\* KafkaService.onModuleDestroy
KafkaOnModuleDestroy ==
  /\ kafkaConnected
  /\ kafkaConnected' = FALSE
  /\ UNCHANGED << raw, gpc, greq, gresp, served, guuid, gRegistryEnabled, gIsConnected, evars, ovars >>

\* RegistryService.onModuleDestroy of the gateway
GatewayRegistryOnModuleDestroy ==
  /\ gIsConnected
  /\ gIsConnected' = FALSE
  /\ UNCHANGED << raw, gpc, greq, gresp, served, guuid, gRegistryEnabled, kafkaConnected, evars, ovars >>

\* ------------------------------------------------------------------------
\* Specification of the Gateway
\* ------------------------------------------------------------------------
\* After module initialisation: the producer is connected (a failed connect
\* aborts the start); the Registry client is connected when verification is
\* enabled, unless connect() failed, which it logs and swallows.
InitGateway ==
  /\ raw = << >>
  /\ gpc = "idle"
  /\ greq = IdleReq
  /\ gresp = NoResp
  /\ served = 0
  /\ guuid = 0
  /\ gRegistryEnabled \in BOOLEAN
  /\ gIsConnected \in (IF gRegistryEnabled THEN BOOLEAN ELSE {FALSE})
  /\ kafkaConnected = TRUE
  /\ EnricherAtRest
  /\ OthersAtRest

NextGateway ==
  \/ ReceiveHttp
  \/ ReceiveGrpc
  \/ VerifyDevice
  \/ ProduceAttempt
  \/ KafkaOnModuleDestroy
  \/ GatewayRegistryOnModuleDestroy

SpecGateway == InitGateway /\ [][NextGateway]_vars

\* ------------------------------------------------------------------------
\* Properties of the Gateway
\* ------------------------------------------------------------------------
\* the request in greq has been answered
RequestEnded == gpc = "idle" /\ greq.surface # "none"

\* the raw records written for the request in greq
RawOfRequest == { i \in 1..Len(raw) : i > greq.rawBefore }

\* C9: with verification enabled, when the Registry client is not connected
\* or GetDevice failed with an RPC error or a deadline, the request is let
\* through: verifyDevice gives true, the request is not answered
\* device-not-found, a request with a metric reaches produceRawTelemetry,
\* and once the broker acknowledged the send the raw event is on the topic
\* and the caller has a success response with its event_id.
FailOpenCase(q) == gRegistryEnabled /\ q.checked /\ (~q.called \/ q.reply.kind = "error")

C9_FailOpen ==
  FailOpenCase(greq)
  => /\ greq.verified
     /\ (RequestEnded => gresp.message # MsgDeviceNotFound)
     /\ (greq.metrics # {} => greq.produceCalls = 1)
     /\ (RequestEnded /\ gresp.success) =>
          /\ RawOfRequest # {}
          /\ \A i \in RawOfRequest : raw[i] = RawRecord(greq.event)
          /\ gresp.eventId = greq.event.event_id

C9_Witness ==
  /\ RequestEnded
  /\ FailOpenCase(greq)
  /\ greq.called
  /\ greq.reply.code \in {"UNAVAILABLE", "DEADLINE_EXCEEDED"}
  /\ gresp.success
  /\ RawOfRequest # {}

\* C10: with verification enabled, when the Registry answers that the device
\* is not registered (status not_found), the request is rejected with the
\* device-not-found error (gRPC status 3, HTTP 400), produceRawTelemetry is
\* not called and the raw topic is as it was when the request arrived.
NotRegisteredCase(q) ==
  gRegistryEnabled /\ q.called /\ q.reply.kind = "response" /\ q.reply.status = 2

C10_NotFoundRejected ==
  NotRegisteredCase(greq)
  => /\ gpc = "idle"
     /\ ~greq.verified
     /\ ~gresp.success
     /\ gresp.message = MsgDeviceNotFound
     /\ (greq.surface = "grpc" => gresp.status = 3)
     /\ (greq.surface = "http" => gresp.http = 400)
     /\ greq.produceCalls = 0
     /\ greq.event = NoRawEvent
     /\ Len(raw) = greq.rawBefore

C10_Witness ==
  /\ RequestEnded
  /\ NotRegisteredCase(greq)
  /\ greq.surface = "grpc"
  /\ gresp.status = 3
  /\ Len(raw) > 0

\* C11: with verification enabled and the client connected, when GetDevice
\* answers with status success (the device is registered), verifyDevice
\* gives true, the request is not answered device-not-found, and a request
\* whose first send the broker acknowledged has exactly one raw record.
RegisteredCase(q) ==
  gRegistryEnabled /\ q.called /\ q.reply.kind = "response" /\ q.reply.status = 1

C11_RegisteredAccepted ==
  RegisteredCase(greq)
  => /\ greq.verified
     /\ (RequestEnded => gresp.message # MsgDeviceNotFound)
     /\ (RequestEnded /\ gresp.success /\ greq.sendFailures = 0)
          => Cardinality(RawOfRequest) = 1

\* the payload as the caller sent it has no device_id, a timestamp that is
\* not ISO-8601, or no measurement
InvalidPayload(q) ==
  IF q.surface = "grpc"
  THEN \/ ~Truthy(q.data.device_id)
       \/ (Truthy(q.data.timestamp) /\ q.data.timestamp # IsoTimestamp)
       \/ q.data.measurements = << >>
  ELSE \/ ~Truthy(q.deviceId)
       \/ q.timestamp # IsoTimestamp
       \/ q.metrics = {}

\* C12: on both surfaces a payload without measurements, with a malformed
\* timestamp or without device_id is answered validation_error (HTTP 400,
\* gRPC status 2) and no raw record is written for it.
C12_InvalidRejected ==
  (greq.surface # "none" /\ InvalidPayload(greq))
  => /\ RawOfRequest = {}
     /\ RequestEnded =>
          /\ ~gresp.success
          /\ (greq.surface = "http" => gresp.http = 400)
          /\ (greq.surface = "grpc" => gresp.status = 2)

\* C13: a success response carries the event_id of a record the broker
\* has written for the request; when every send of produceRawTelemetry
\* failed, the response is not a success and, over gRPC, has status 4
\* (internal_error) whatever the message of the broker error.
C13_SuccessOnlyAfterAck ==
  /\ (RequestEnded /\ gresp.success)
       => \E i \in RawOfRequest : raw[i].value.event_id = gresp.eventId
  /\ (RequestEnded /\ greq.sendFailures = produceMaxRetries)
       => /\ ~gresp.success
          /\ (greq.surface = "grpc" => gresp.status = 4)

\* produceRawTelemetry gave up: its last send failed and lastError was thrown
GaveUp == RequestEnded /\ ~gresp.success /\ greq.sendFailures > 0

\* C14 as stated: produceRawTelemetry gives up only after 8 failed sends,
\* and the wait after the n-th failed send is 100 ms * 2^(n-1), at most 30 s.
C14_EightAttempts ==
  /\ GaveUp => greq.sendFailures = kafkaRetry.retries
  /\ \A n \in 1..Len(greq.delays) :
       greq.delays[n] = Min(kafkaRetry.initialRetryTime * kafkaRetry.multiplier ^ (n - 1),
                            kafkaRetry.maxRetryTime)

\* C14 (amended): produceRawTelemetry calls producer.send at most 3 times;
\* it waits 1000 ms * 2^(n-1) (at most 5000 ms) after the n-th failed send,
\* gives up only after the third failed send, and a send that succeeds ends
\* the loop: no send follows it and the request is answered success. (The
\* 8 retries from 100 ms, doubling up to 30 s, are the retry options of the
\* kafkajs client inside one send call.)
C14_ThreeAttempts ==
  /\ greq.attempt <= 3
  /\ \A n \in 1..Len(greq.delays) :
       /\ greq.delays[n] = 1000 * 2 ^ (n - 1)
       /\ greq.delays[n] <= 5000
  /\ GaveUp => (greq.sendFailures = 3 /\ Len(greq.delays) = 2)
  /\ (gpc = "produce") => (greq.attempt = greq.sendFailures + 1 /\ Len(greq.delays) = greq.sendFailures)
  /\ (RequestEnded /\ greq.attempt > 0 /\ greq.sendFailures < 3) => gresp.success
  /\ (RequestEnded /\ gresp.success) =>
       (greq.attempt = greq.sendFailures + 1 /\ Len(greq.delays) = greq.sendFailures)

C14_Witness ==
  /\ RequestEnded
  /\ gresp.success
  /\ greq.sendFailures = 2
  /\ greq.delays = << 1000, 2000 >>

\* the device_id of the request as the caller sent it
RequestDeviceId(q) == IF q.surface = "grpc" THEN q.data.device_id ELSE q.deviceId

\* C15: every raw record of a request has the request's device_id as key,
\* event_type telemetry.raw, and a generated event_id and trace_id that no
\* record of another request carries; the eventId of a success response is
\* the event_id of the records written for the request.
C15_RawEnvelope ==
  /\ \A i \in RawOfRequest :
       /\ raw[i].key = RequestDeviceId(greq)
       /\ raw[i].value.device_id = RequestDeviceId(greq)
       /\ raw[i].value.event_type = "telemetry.raw"
       /\ \E k \in 1..Len(EvtPool) : raw[i].value.event_id = EvtPool[k]
       /\ \E k \in 1..Len(TracePool) : raw[i].value.trace_id = TracePool[k]
       /\ \A j \in 1..greq.rawBefore :
            /\ raw[j].value.event_id # raw[i].value.event_id
            /\ raw[j].value.trace_id # raw[i].value.trace_id
  /\ (RequestEnded /\ gresp.success) =>
       /\ RawOfRequest # {}
       /\ \A i \in RawOfRequest : raw[i].value.event_id = gresp.eventId

C15_Witness ==
  /\ RequestEnded
  /\ gresp.success
  /\ greq.rawBefore > 0
  /\ RequestDeviceId(greq) = "D2"
  /\ \E i \in RawOfRequest : raw[i].key = "D2" /\ raw[i].value.event_id = gresp.eventId
  /\ \E j \in 1..greq.rawBefore : raw[j].key = "D1"

\* C16: no two records of the raw topic carry the same event_id.
C16_UniqueEventIds ==
  \A i, j \in 1..Len(raw) :
    raw[i].value.event_id = raw[j].value.event_id => i = j

\* the temperature measurements of a SendMeasurements message
TemperatureOf(ms) == { ms[n] : n \in { k \in 1..Len(ms) : MetricKey(ms[k].metric) = "temp" } }

\* C17: every raw record written for a SendMeasurements request that
\* declares a temperature carries a temperature measurement with the unit
\* and the value of the request.
C17_TemperatureUnitPreserved ==
  (greq.surface = "grpc")
  => \A i \in RawOfRequest :
       \A t \in TemperatureOf(greq.data.measurements) :
         \E n \in 1..Len(raw[i].value.measurements) :
           LET m == raw[i].value.measurements[n]
           IN m.metric = "temperature" /\ m.unit = t.unit /\ m.value = t.value

\* the entries of a measurements array with the given metric name
EntriesOf(ms, name) == { n \in 1..Len(ms) : ms[n].metric = name }

\* the array ms has one entry for the DTO key when the DTO has it, with its
\* value and the given name and unit, and none when the DTO has not
OneEntryPer(metrics, ms, key, name, unit) ==
  IF HasMetric(metrics, key)
  THEN /\ Cardinality(EntriesOf(ms, name)) = 1
       /\ \A n \in EntriesOf(ms, name) :
            ms[n].value = MetricValue(metrics, key) /\ ms[n].unit = unit
  ELSE EntriesOf(ms, name) = {}

\* C18: the measurements of the event of an accepted DTO, and of every raw
\* record written for it, hold one entry per metric of the DTO: hr as
\* heart_rate in bpm, spo2 as oxygen_saturation in percent, temp as
\* temperature in fahrenheit, each with the DTO's value, and nothing else.
C18_MeasurementsPerMetric ==
  \A ms \in (IF greq.event # NoRawEvent THEN { greq.event.measurements } ELSE {})
              \cup { raw[i].value.measurements : i \in RawOfRequest } :
    /\ OneEntryPer(greq.metrics, ms, "hr", "heart_rate", "bpm")
    /\ OneEntryPer(greq.metrics, ms, "spo2", "oxygen_saturation", "percent")
    /\ OneEntryPer(greq.metrics, ms, "temp", "temperature", "fahrenheit")
    /\ Len(ms) = Cardinality(greq.metrics)
    /\ Len(ms) > 0

C18_Witness ==
  /\ RequestEnded
  /\ gresp.success
  /\ greq.metrics = { <<"hr", 72>>, <<"temp", 99>> }
  /\ \E i \in RawOfRequest : Len(raw[i].value.measurements) = 2

\* C35: a request is answered device-not-found only when GetDevice answered
\* with status not_found; after a response with status invalid_request or
\* internal_error the request is let through like after an RPC error.
ErrorStatusCase(q) ==
  gRegistryEnabled /\ q.called /\ q.reply.kind = "response" /\ q.reply.status \in {3, 4}

C35_RejectOnlyNotFound ==
  /\ ErrorStatusCase(greq)
       => /\ greq.verified
          /\ (RequestEnded => gresp.message # MsgDeviceNotFound)
  /\ (RequestEnded /\ gresp.message = MsgDeviceNotFound) => NotRegisteredCase(greq)

\* ------------------------------------------------------------------------
\* Process shutdown (bootstrap.shutdown of the gateway and of the enrichment
\* service)
\* ------------------------------------------------------------------------
MaxSignals == 2

Signals == { "SIGTERM", "SIGINT" }

\* process.on('uncaughtException') and process.on('unhandledRejection')
ProcessFaults == { "uncaughtException", "unhandledRejection" }

\* the events a process registers shutdown() for: both register the two
\* signals, the enrichment service the two process faults as well
ShutdownTriggers(p) == IF p = "enrichment" THEN Signals \cup ProcessFaults ELSE Signals

\* Faulty variant: no process arms a timer.
HasShutdownTimer_none(p) == FALSE

\* shutdown() of the enrichment service starts with setTimeout(() =>
\* process.exit(1), gracefulShutdownTimeoutMs) (default 30000); shutdown() of
\* the gateway arms no timer
HasShutdownTimer(p) == p = "enrichment"

\* process.on(sig, () => shutdown(sig)): every signal or fault received
\* starts a shutdown() of its own, which arms its timer (if any) and awaits
\* app.close()
ShutdownSignal(p) ==
  /\ ~shut[p].exited
  /\ Len(shut[p].received) < MaxSignals
  /\ \E sig \in ShutdownTriggers(p) :
       shut' = [shut EXCEPT ![p].received = Append(@, sig),
                            ![p].timers = IF HasShutdownTimer(p) THEN @ + 1 ELSE @]
  /\ UNCHANGED notShutdown

\* await app.close() returned: clearTimeout, process.exit(0)
AppCloseResolves(p) ==
  /\ ~shut[p].exited
  /\ shut[p].received # << >>
  /\ shut' = [shut EXCEPT ![p].exited = TRUE, ![p].code = 0, ![p].how = "closed"]
  /\ UNCHANGED notShutdown

\* await app.close() threw: clearTimeout, process.exit(1)
AppCloseRejects(p) ==
  /\ ~shut[p].exited
  /\ shut[p].received # << >>
  /\ shut' = [shut EXCEPT ![p].exited = TRUE, ![p].code = 1, ![p].how = "close_failed"]
  /\ UNCHANGED notShutdown

\* the callback of an armed timer runs: process.exit(1)
ShutdownTimeout(p) ==
  /\ ~shut[p].exited
  /\ shut[p].timers > 0
  /\ shut' = [shut EXCEPT ![p].exited = TRUE, ![p].code = 1, ![p].how = "timeout"]
  /\ UNCHANGED notShutdown

InitShutdown ==
  /\ ShutdownAtRest
  /\ EnricherAtRest
  /\ GatewayAtRest
  /\ IncidentAtRest
  /\ NotifierAtRest
  /\ NormalizerAtRest
  /\ RulesAtRest

NextShutdown ==
  \E p \in Procs :
    \/ ShutdownSignal(p)
    \/ AppCloseResolves(p)
    \/ AppCloseRejects(p)
    \/ ShutdownTimeout(p)

\* app.close() may never settle (no fairness on its two outcomes); a timer
\* that is armed fires when its delay has passed, the event loop of a
\* process that awaits a promise being free to run it
SpecShutdown ==
  /\ InitShutdown
  /\ [][NextShutdown]_vars
  /\ \A p \in Procs : WF_vars(ShutdownTimeout(p))

\* C24: a process that has received SIGTERM or SIGINT eventually exits,
\* whether or not app.close() ever settles, and a process that exits because
\* the shutdown deadline has passed exits with a non-zero code.
C24_ExitsAfterSignal ==
  /\ \A p \in Procs : (shut[p].received # << >>) ~> shut[p].exited
  /\ [](\A p \in Procs : shut[p].how = "timeout" => shut[p].code # 0)

\* C40: the enrichment process exits with code 0 only when every shutdown
\* was started by SIGTERM or SIGINT and app.close() returned before a timer
\* fired; after an uncaught exception or unhandled rejection, a failed close
\* or a timeout the exit code is not 0.
C40_ZeroOnlyAfterSignalAndClose ==
  LET e == shut["enrichment"]
  IN /\ (e.exited /\ e.code = 0)
          => /\ e.how = "closed"
             /\ \A i \in 1..Len(e.received) : e.received[i] \in Signals
     /\ (e.exited /\ e.how \in {"close_failed", "timeout"}) => e.code # 0

\* ------------------------------------------------------------------------
\* alerts.raised events (written by the Rules Engine)
\* ------------------------------------------------------------------------
\* alerts of two patients; the severity is written in lower or upper case,
\* is one the consumers do not list ("warning"), or is missing
AlertEvents ==
  { [kind |-> "event", event_id |-> x[1], source_event_id |-> x[2], patient_id |-> x[3],
     device_id |-> x[4], severity |-> x[5], alert_type |-> x[6]] :
      x \in { <<"a1", "s1", "P1", "D1", "critical", "vital_sign_anomaly">>,
              <<"a2", "s2", "P1", "D1", "HIGH", "vital_sign_anomaly">>,
              <<"a3", "s3", "P1", "D1", "medium", None>>,
              <<"a4", "s4", "P2", "D2", "low", "vital_sign_anomaly">>,
              <<"a5", "s5", "P2", "D2", "warning", "vital_sign_anomaly">>,
              <<"a6", "s6", "P2", "D2", None, "vital_sign_anomaly">> } }

\* a record without a value, and a record whose value is not JSON
NoValueAlert == [kind |-> "novalue", event_id |-> None, source_event_id |-> None,
                 patient_id |-> None, device_id |-> None, severity |-> None,
                 alert_type |-> None]
BadJsonAlert == [NoValueAlert EXCEPT !.kind = "badjson"]

AlertMsgs == AlertEvents \cup { NoValueAlert, BadJsonAlert }

\* severity?.toLowerCase()
SeverityToLowerCase(sev) ==
  IF sev = "HIGH" THEN "high" ELSE sev

\* ------------------------------------------------------------------------
\* incident-service
\* ------------------------------------------------------------------------
MaxDeliveries == 3

\* Faulty variant: the severity is looked up as written.
IncidentSeverityOf_asWritten(sev) ==
  IF sev \in { "low", "medium", "high", "critical" } THEN sev ELSE "medium"

\* severityMap[alertEvent.severity?.toLowerCase()] || IncidentSeverity.MEDIUM
IncidentSeverityOf(sev) ==
  LET n == SeverityToLowerCase(sev)
  IN IF n \in { "low", "medium", "high", "critical" } THEN n ELSE "medium"

\* the row prisma.incident.create writes for an alert (IncidentService.create
\* called by createFromAlert)
IncidentRow(a) ==
  [patientId |-> a.patient_id,
   deviceId  |-> a.device_id,
   severity  |-> IncidentSeverityOf(a.severity),
   type      |-> OrElse(a.alert_type, "unknown"),
   status    |-> "OPEN",
   details   |-> [eventId |-> a.event_id, sourceEventId |-> a.source_event_id]]

\* eachMessage of the incident-service for one delivered record: a record
\* without value is skipped, one that does not parse is logged, any other
\* is handed to createFromAlert, which creates an incident without looking
\* for an earlier one of the same alert. The broker may deliver a record
\* more than once (at-least-once delivery, replay of the topic).
IncidentEachMessage ==
  /\ kConsumer.running
  /\ Len(iDelivered) < MaxDeliveries
  /\ \E m \in AlertMsgs :
       /\ iDelivered' = Append(iDelivered, m)
       /\ incidents' = IF m.kind = "event" THEN Append(incidents, IncidentRow(m))
                       ELSE incidents
  /\ UNCHANGED kvars
  /\ UNCHANGED notIncident

\* the service after a start with Kafka available, the connection made
\* before AppModule.onModuleInit ran: connected, the run loop started by the
\* subscribe() of setMessageHandler, the one of startConsuming refused
KafkaConsumerRunning ==
  /\ kafkaUp = TRUE
  /\ kBoot = "started"
  /\ kSvc = [isConnected |-> TRUE, messageHandler |-> TRUE, connectionRetryAttempts |-> 0]
  /\ kTask = [t \in KafkaTasks |-> DoneTask]
  /\ kConsumer = [connectCalls |-> 1, subscribeCalls |-> 2, runCalls |-> 1, running |-> TRUE]

InitIncident ==
  /\ iDelivered = << >>
  /\ incidents = << >>
  /\ KafkaConsumerRunning
  /\ EnricherAtRest
  /\ GatewayAtRest
  /\ ShutdownAtRest
  /\ NotifierAtRest
  /\ NormalizerAtRest
  /\ RulesAtRest

NextIncident == IncidentEachMessage

SpecIncident == InitIncident /\ [][NextIncident]_vars

\* the incidents created for the alert with event_id e
IncidentsOf(e) == { i \in 1..Len(incidents) : incidents[i].details.eventId = e }

\* C27: however often an alert (one event_id) is delivered, at most one
\* incident exists for it.
C27_OneIncidentPerAlert ==
  \A m \in AlertEvents : Cardinality(IncidentsOf(m.event_id)) <= 1

\* C39: every incident created from an alert has status OPEN; its severity
\* is the alert's severity in lower case when that is low, medium, high or
\* critical in any case, and medium otherwise (warning, no severity).
ExpectedIncidentSeverity ==
  { << "critical", "critical" >>, << "HIGH", "high" >>, << "medium", "medium" >>,
    << "low", "low" >>, << "warning", "medium" >>, << None, "medium" >> }

C39_IncidentSeverity ==
  \A i \in 1..Len(incidents) :
    /\ incidents[i].status = "OPEN"
    /\ \E a \in AlertEvents :
         /\ a.event_id = incidents[i].details.eventId
         /\ << a.severity, incidents[i].severity >> \in ExpectedIncidentSeverity

\* incidents of an alert written in upper case, of a warning and of an
\* alert without severity
C39_Witness ==
  /\ Len(incidents) = 3
  /\ { iDelivered[i].severity : i \in 1..Len(iDelivered) } = { "HIGH", "warning", None }
  /\ { incidents[i].severity : i \in 1..Len(incidents) } = { "high", "medium" }

\* ------------------------------------------------------------------------
\* incident-service: KafkaConsumerService (connection and subscription)
\* ------------------------------------------------------------------------
\* ConfigService.kafkaConnectionRetryAttempts (KAFKA_CONNECTION_RETRY_ATTEMPTS,
\* default 10), studied with a small value
kafkaConnectionRetryAttempts == 2

\* Faulty variant: onModuleInit awaits connectWithRetry().
InitAwaitsConnection_awaited == TRUE

\* KafkaConsumerService.onModuleInit calls connectWithRetry() without await:
\* the hook returns while the connection is being made
InitAwaitsConnection == FALSE

\* the state of a chain, of the service and of the consumer after a step
Outcome(task, svc, con) == [task |-> task, svc |-> svc, con |-> con]

\* subscribe() up to `await this.consumer.subscribe(...)`; its callers have
\* just seen or set isConnected, so the guard of line 134 lets it pass
SubscribeCall(tail, svc, con) ==
  Outcome([pc |-> "subscribe", tail |-> tail], svc,
          [con EXCEPT !.subscribeCalls = @ + 1])

\* connectWithRetry() has returned to its caller: onModuleInit ignores the
\* result; startConsuming goes on to subscribe() when isConnected, and logs
\* a warning otherwise
Returned(t, svc, con) ==
  IF t = "start" /\ svc.isConnected
  THEN SubscribeCall(TRUE, svc, con)
  ELSE Outcome(DoneTask, svc, con)

\* the test of the while loop of connectWithRetry and, when it passes,
\* connect() up to `await this.consumer.connect()`
LoopTest(t, svc, con) ==
  IF svc.connectionRetryAttempts >= kafkaConnectionRetryAttempts
  THEN Returned(t, svc, con)
  ELSE IF svc.isConnected
  THEN Returned(t, [svc EXCEPT !.connectionRetryAttempts = 0], con)
  ELSE Outcome([pc |-> "connect", tail |-> FALSE], svc,
               [con EXCEPT !.connectCalls = @ + 1])

\* subscribe() has returned (it catches what consumer.subscribe and
\* consumer.run throw): a call made by connect() ends the connect(), after
\* which connectWithRetry resets the attempts and returns; any other call
\* ends its chain
AfterSubscribe(t, task, svc, con) ==
  IF task.tail
  THEN Outcome(DoneTask, svc, con)
  ELSE Returned(t, [svc EXCEPT !.connectionRetryAttempts = 0], con)

\* the Kafka brokers become reachable
KafkaComesUp ==
  /\ ~kafkaUp
  /\ kafkaUp' = TRUE
  /\ UNCHANGED << kBoot, kSvc, kTask, kConsumer, iDelivered, incidents >>
  /\ UNCHANGED notIncident

\* KafkaConsumerService.onModuleInit: connectWithRetry() is started
KafkaConsumerOnModuleInit ==
  /\ kBoot = "boot"
  /\ LET o == LoopTest("init", kSvc, kConsumer)
     IN /\ kTask' = [kTask EXCEPT !["init"] = o.task]
        /\ kSvc' = o.svc
        /\ kConsumer' = o.con
  /\ kBoot' = "kafkaInit"
  /\ UNCHANGED << kafkaUp, iDelivered, incidents >>
  /\ UNCHANGED notIncident

\* AppModule.onModuleInit, called when the hooks of the providers have
\* returned: setMessageHandler (which calls subscribe() when connected),
\* then startConsuming() without await
AppOnModuleInit ==
  /\ kBoot = "kafkaInit"
  /\ InitAwaitsConnection => kTask["init"].pc = "done"
  /\ LET svc == [kSvc EXCEPT !.messageHandler = TRUE]
         h   == IF svc.isConnected THEN SubscribeCall(TRUE, svc, kConsumer)
                ELSE Outcome(kTask["handler"], svc, kConsumer)
         st  == IF ~svc.isConnected THEN LoopTest("start", h.svc, h.con)
                ELSE SubscribeCall(TRUE, h.svc, h.con)
     IN /\ kTask' = [kTask EXCEPT !["handler"] = h.task, !["start"] = st.task]
        /\ kSvc' = st.svc
        /\ kConsumer' = st.con
  /\ kBoot' = "started"
  /\ UNCHANGED << kafkaUp, iDelivered, incidents >>
  /\ UNCHANGED notIncident

\* consumer.connect() of chain t resolves: isConnected = true and, when the
\* handler is set, subscribe()
ConnectResolves(t) ==
  /\ kTask[t].pc = "connect"
  /\ kafkaUp
  /\ LET svc == [kSvc EXCEPT !.isConnected = TRUE]
         o   == IF svc.messageHandler THEN SubscribeCall(FALSE, svc, kConsumer)
                ELSE Returned(t, [svc EXCEPT !.connectionRetryAttempts = 0], kConsumer)
     IN /\ kTask' = [kTask EXCEPT ![t] = o.task]
        /\ kSvc' = o.svc
        /\ kConsumer' = o.con
  /\ UNCHANGED << kafkaUp, kBoot, iDelivered, incidents >>
  /\ UNCHANGED notIncident

\* consumer.connect() of chain t rejects: the attempt is counted; another
\* one follows after retryDelay while the count is below the maximum,
\* otherwise connectWithRetry returns
ConnectRejects(t) ==
  /\ kTask[t].pc = "connect"
  /\ ~kafkaUp
  /\ LET svc == [kSvc EXCEPT !.connectionRetryAttempts = @ + 1]
         o   == IF svc.connectionRetryAttempts < kafkaConnectionRetryAttempts
                THEN Outcome([pc |-> "delay", tail |-> FALSE], svc, kConsumer)
                ELSE Returned(t, svc, kConsumer)
     IN /\ kTask' = [kTask EXCEPT ![t] = o.task]
        /\ kSvc' = o.svc
        /\ kConsumer' = o.con
  /\ UNCHANGED << kafkaUp, kBoot, iDelivered, incidents >>
  /\ UNCHANGED notIncident

\* the setTimeout of retryDelay fires: back to the test of the loop
RetryDelayElapsed(t) ==
  /\ kTask[t].pc = "delay"
  /\ LET o == LoopTest(t, kSvc, kConsumer)
     IN /\ kTask' = [kTask EXCEPT ![t] = o.task]
        /\ kSvc' = o.svc
        /\ kConsumer' = o.con
  /\ UNCHANGED << kafkaUp, kBoot, iDelivered, incidents >>
  /\ UNCHANGED notIncident

\* consumer.subscribe() of chain t settles. It resolves, and consumer.run is
\* called; on a consumer that is running already the library may refuse
\* the subscription instead (subscribe() logs the error and returns)
SubscribeSettles(t) ==
  /\ kTask[t].pc = "subscribe"
  /\ \E refused \in (IF kConsumer.running THEN BOOLEAN ELSE { FALSE }) :
       LET o == IF refused THEN AfterSubscribe(t, kTask[t], kSvc, kConsumer)
                ELSE Outcome([kTask[t] EXCEPT !.pc = "run"], kSvc,
                             [kConsumer EXCEPT !.runCalls = @ + 1])
       IN /\ kTask' = [kTask EXCEPT ![t] = o.task]
          /\ kSvc' = o.svc
          /\ kConsumer' = o.con
  /\ UNCHANGED << kafkaUp, kBoot, iDelivered, incidents >>
  /\ UNCHANGED notIncident

\* consumer.run() of chain t resolves: the run loop is started
RunSettles(t) ==
  /\ kTask[t].pc = "run"
  /\ LET o == AfterSubscribe(t, kTask[t], kSvc, [kConsumer EXCEPT !.running = TRUE])
     IN /\ kTask' = [kTask EXCEPT ![t] = o.task]
        /\ kSvc' = o.svc
        /\ kConsumer' = o.con
  /\ UNCHANGED << kafkaUp, kBoot, iDelivered, incidents >>
  /\ UNCHANGED notIncident

\* the service is constructed; Kafka is reachable or not
InitIncidentKafka ==
  /\ iDelivered = << >>
  /\ incidents = << >>
  /\ kafkaUp \in BOOLEAN
  /\ KafkaConsumerNotStarted
  /\ EnricherAtRest
  /\ GatewayAtRest
  /\ ShutdownAtRest
  /\ NotifierAtRest
  /\ NormalizerAtRest
  /\ RulesAtRest

\* the steps of the service
KafkaServiceStep ==
  \/ KafkaConsumerOnModuleInit
  \/ AppOnModuleInit
  \/ \E t \in KafkaTasks :
       \/ ConnectResolves(t)
       \/ ConnectRejects(t)
       \/ RetryDelayElapsed(t)
       \/ SubscribeSettles(t)
       \/ RunSettles(t)

NextIncidentKafka ==
  \/ KafkaComesUp
  \/ KafkaServiceStep

SpecIncidentKafka == InitIncidentKafka /\ [][NextIncidentKafka]_vars

\* Nest runs the two hooks; nothing is assumed about the calls made to
\* Kafka, which may never settle
SpecIncidentBoot ==
  /\ InitIncidentKafka
  /\ [][NextIncidentKafka]_vars
  /\ WF_vars(KafkaConsumerOnModuleInit)
  /\ WF_vars(AppOnModuleInit)

\* every call made to the consumer settles and every timer fires; nothing
\* is assumed about when Kafka becomes reachable
SpecIncidentKafkaLive ==
  /\ InitIncidentKafka
  /\ [][NextIncidentKafka]_vars
  /\ WF_vars(KafkaServiceStep)

\* every chain has ended
KafkaTasksEnded == kBoot = "started" /\ \A t \in KafkaTasks : kTask[t].pc \in { "none", "done" }

\* C31: the module initialisation of the incident-service completes
\* whatever Kafka does: both hooks return without waiting for a call to
\* Kafka to settle.
C31_StartupCompletes == <>(kBoot = "started")

\* the service has started, Kafka was never reachable and every connection
\* attempt failed
C31_Witness ==
  /\ KafkaTasksEnded
  /\ ~kafkaUp
  /\ ~kSvc.isConnected
  /\ kSvc.connectionRetryAttempts >= kafkaConnectionRetryAttempts

\* C32: once Kafka is reachable the service connects, subscribes and starts
\* consuming, however long Kafka was unreachable before.
C32_EventuallyConsumes == kafkaUp ~> kConsumer.running

\* C36: whatever the interleaving of the chains, consumer.subscribe and
\* consumer.run are each called at most once, consumer.connect is called at
\* most kafkaConnectionRetryAttempts times and the attempt counter does not
\* pass that maximum.
C36_SubscribesOnce ==
  /\ kConsumer.subscribeCalls <= 1
  /\ kConsumer.runCalls <= 1
  /\ kConsumer.connectCalls <= kafkaConnectionRetryAttempts
  /\ kSvc.connectionRetryAttempts <= kafkaConnectionRetryAttempts

\* ------------------------------------------------------------------------
\* notification-service: RateLimitService
\* ------------------------------------------------------------------------
MaxAlerts == 2
MaxTicks == 1

\* ConfigService.rateLimitWindowMs (RATE_LIMIT_WINDOW_MS, default one minute)
rateLimitWindowMs == 60000

\* the value of RATE_LIMIT_MAX_NOTIFICATIONS studied (the default is 10): the
\* limit is reached by the second alert of a patient
MaxNotificationsChoices == { 1 }

\* a key that was incremented but never given a time to live (resetAt is
\* negative) does not expire
Persistent(entry) == entry.count > 0 /\ entry.resetAt < 0

\* the value of a patient's key in Redis: a key whose time to live has
\* passed is gone
RedisCount(p) ==
  IF Persistent(redisStore[p]) THEN redisStore[p].count
  ELSE IF redisStore[p].count > 0 /\ now < redisStore[p].resetAt THEN redisStore[p].count
  ELSE 0

\* isRateLimited through Redis: INCR, PEXPIRE when the count is 1, and the
\* answer count > maxNotifications
ViaRedis(p) ==
  LET count == RedisCount(p) + 1
  IN [redisStore |-> [redisStore EXCEPT ![p] =
                        [count |-> count,
                         resetAt |-> IF count = 1 THEN now + rateLimitWindowMs ELSE @.resetAt]],
      memStore   |-> memStore,
      limited    |-> count > nMax]

\* cleanupInMemoryStore: entries whose window has passed are deleted
CleanupInMemoryStore(store) ==
  [q \in Patients |-> IF store[q].count > 0 /\ store[q].resetAt < now THEN NoLimitEntry
                      ELSE store[q]]

\* isRateLimitedInMemory: a missing entry or one whose window has passed is
\* replaced by { count: 1, resetAt: now + windowMs } and the answer is false;
\* otherwise the count is incremented and compared with maxNotifications
ViaMemory(p) ==
  LET entry == memStore[p]
  IN IF entry.count = 0 \/ entry.resetAt < now
     THEN [memStore   |-> CleanupInMemoryStore(
                            [memStore EXCEPT ![p] = [count |-> 1,
                                                     resetAt |-> now + rateLimitWindowMs]]),
           redisStore |-> redisStore,
           limited    |-> FALSE]
     ELSE [memStore   |-> [memStore EXCEPT ![p].count = @ + 1],
           redisStore |-> redisStore,
           limited    |-> entry.count + 1 > nMax]

\* redis.incr created the key (count 1) and redis.pexpire threw: the key is
\* left without a time to live and the catch block answers from the
\* in-memory store
ViaRedisExpireFails(p) ==
  [ViaMemory(p) EXCEPT !.redisStore = [redisStore EXCEPT ![p] = [count |-> 1, resetAt |-> 0 - 1]]]

\* the ways a call can go: no client is defined ("memory"); both commands
\* succeed ("redis"); incr throws ("redis_error"); incr creates the key and
\* pexpire throws ("expire_error")
RateLimitPaths(p) ==
  IF ~redis THEN { "memory" }
  ELSE { "redis", "redis_error" } \cup (IF RedisCount(p) = 0 THEN { "expire_error" } ELSE {})

\* isRateLimited(patientId)
IsRateLimited(p, path) ==
  CASE path = "redis" -> ViaRedis(p)
    [] path = "expire_error" -> ViaRedisExpireFails(p)
    [] OTHER -> ViaMemory(p)

\* ------------------------------------------------------------------------
\* notification-service: NotificationService
\* ------------------------------------------------------------------------
\* prisma.notification.create (sent_at is a nullable column without a
\* default); created (the status at creation) and call (the createFromAlert
\* call that made the row) are history
NotificationRow(a, channel, status, call) ==
  [patientId |-> a.patient_id, alertId |-> a.event_id, channel |-> channel,
   status |-> status, sentAt |-> None, created |-> status, call |-> call]

\* Faulty variant: the row of a rate-limited alert is created as PENDING.
RateLimitedRows_pending(a, call) == << NotificationRow(a, "EMAIL", "PENDING", call) >>

\* the row created for a rate-limited alert: channel EMAIL, status FAILED
RateLimitedRows(a, call) == << NotificationRow(a, "EMAIL", "FAILED", call) >>

\* Faulty variant: the severity is compared as written.
DetermineChannels_caseSensitive(severity) ==
  IF severity = "critical" THEN << "EMAIL", "SMS", "PUSH" >>
  ELSE IF severity = "high" THEN << "EMAIL", "PUSH" >>
  ELSE << "EMAIL" >>

\* determineChannels: switch on severity?.toLowerCase()
DetermineChannels(severity) ==
  LET normalizedSeverity == SeverityToLowerCase(severity)
  IN IF normalizedSeverity = "critical" THEN << "EMAIL", "SMS", "PUSH" >>
     ELSE IF normalizedSeverity = "high" THEN << "EMAIL", "PUSH" >>
     ELSE << "EMAIL" >>

\* the rows created for an alert that is not rate-limited: one PENDING row
\* per channel
PendingRows(a, call) ==
  LET channels == DetermineChannels(a.severity)
  IN [i \in 1..Len(channels) |-> NotificationRow(a, channels[i], "PENDING", call)]

\* createFromAlert up to the end of the creation of the rows (the handler of
\* app.module.ts calls it for one alert at a time). The database is taken to
\* be available: prisma calls do not throw.
CreateFromAlert ==
  /\ npc = "idle"
  /\ Len(nCalls) < MaxAlerts
  /\ \E a \in AlertEvents : \E path \in RateLimitPaths(a.patient_id) :
       LET res  == IsRateLimited(a.patient_id, path)
           call == Len(nCalls) + 1
           rows == IF res.limited THEN RateLimitedRows(a, call) ELSE PendingRows(a, call)
       IN /\ memStore' = res.memStore
          /\ redisStore' = res.redisStore
          /\ nCalls' = Append(nCalls, [alert |-> a, limited |-> res.limited, at |-> now])
          /\ notifications' = notifications \o rows
          /\ nSend' = IF res.limited THEN {}
                      ELSE (Len(notifications) + 1)..(Len(notifications) + Len(rows))
          /\ npc' = IF res.limited THEN "idle" ELSE "sending"
  /\ UNCHANGED << redis, now, nMax >>
  /\ UNCHANGED notNotifier

\* Faulty variant: sentAt is written whatever the outcome.
SendUpdate_stampAlways(row, outcome) ==
  [row EXCEPT !.status = outcome, !.sentAt = "new Date()"]

\* the prisma.notification.update of sendNotification: { status: SENT,
\* sentAt: new Date() } when the simulated send succeeded, { status: FAILED }
\* when it did not
SendUpdate(row, outcome) ==
  IF outcome = "SENT"
  THEN [row EXCEPT !.status = "SENT", !.sentAt = "new Date()"]
  ELSE [row EXCEPT !.status = "FAILED"]

\* await Promise.all(notifications.map(sendNotification)): for each row
\* just created the simulated send succeeds (status SENT) or fails (status
\* FAILED); createFromAlert returns when all have settled
SendNotifications ==
  /\ npc = "sending"
  /\ \E outcome \in [nSend -> { "SENT", "FAILED" }] :
       notifications' = [i \in 1..Len(notifications) |->
                           IF i \in nSend THEN SendUpdate(notifications[i], outcome[i])
                           ELSE notifications[i]]
  /\ nSend' = {}
  /\ npc' = "idle"
  /\ UNCHANGED << nCalls, memStore, redisStore, redis, now, nMax >>
  /\ UNCHANGED notNotifier

\* time passes (a window length and a millisecond at a time). Date.now() is
\* read by isRateLimited only, so the clock is advanced between two calls.
Tick ==
  /\ npc = "idle"
  /\ now < MaxTicks * (rateLimitWindowMs + 1)
  /\ now' = now + rateLimitWindowMs + 1
  /\ UNCHANGED << nCalls, notifications, npc, nSend, memStore, redisStore, redis, nMax >>
  /\ UNCHANGED notNotifier

\* redis.on('error'): this.redis = undefined, for the rest of the run
RedisErrorEvent ==
  /\ redis
  /\ redis' = FALSE
  /\ UNCHANGED << nCalls, notifications, npc, nSend, memStore, redisStore, now, nMax >>
  /\ UNCHANGED notNotifier

\* After module initialisation: the Redis client is defined when Redis is
\* enabled and answered the ping
InitNotifier ==
  /\ nCalls = << >>
  /\ notifications = << >>
  /\ npc = "idle"
  /\ nSend = {}
  /\ memStore = [p \in Patients |-> NoLimitEntry]
  /\ redisStore = [p \in Patients |-> NoLimitEntry]
  /\ redis \in BOOLEAN
  /\ now = 0
  /\ nMax \in MaxNotificationsChoices
  /\ EnricherAtRest
  /\ GatewayAtRest
  /\ ShutdownAtRest
  /\ IncidentAtRest
  /\ NormalizerAtRest
  /\ RulesAtRest

NextNotifier ==
  \/ CreateFromAlert
  \/ SendNotifications
  \/ Tick
  \/ RedisErrorEvent

SpecNotifier == InitNotifier /\ [][NextNotifier]_vars

\* the rows made by the createFromAlert call number c
RowsOfCall(c) == { i \in 1..Len(notifications) : notifications[i].call = c }

\* the rows of patient p created as PENDING by calls made at a time in
\* [t, t + rateLimitWindowMs)
DeliverableIn(p, t) ==
  { i \in 1..Len(notifications) :
      /\ notifications[i].patientId = p
      /\ notifications[i].created = "PENDING"
      /\ nCalls[notifications[i].call].at >= t
      /\ nCalls[notifications[i].call].at < t + rateLimitWindowMs }

\* C28: in no span of one rate-limit window are more than
\* rateLimitMaxNotifications notifications of one patient created as PENDING.
C28_AtMostMaxDeliverable ==
  \A p \in Patients : \A c \in 1..Len(nCalls) :
    Cardinality(DeliverableIn(p, nCalls[c].at)) <= nMax

\* C29: a createFromAlert call that found the rate limit exceeded has made
\* exactly one row, for its alert and patient, with channel EMAIL and status
\* FAILED; no send is pending for the row and its status is FAILED in every
\* later state.
C29_RateLimitedRecordedFailed ==
  \A c \in 1..Len(nCalls) :
    nCalls[c].limited
    => /\ Cardinality(RowsOfCall(c)) = 1
       /\ \A i \in RowsOfCall(c) :
            /\ notifications[i].alertId = nCalls[c].alert.event_id
            /\ notifications[i].patientId = nCalls[c].alert.patient_id
            /\ notifications[i].channel = "EMAIL"
            /\ notifications[i].status = "FAILED"
            /\ i \notin nSend

\* a rate-limited critical alert, recorded, after the sends of the earlier
\* call have settled
C29_Witness ==
  /\ npc = "idle"
  /\ \E c \in 1..Len(nCalls) :
       /\ nCalls[c].limited
       /\ nCalls[c].alert.severity = "critical"
       /\ RowsOfCall(c) # {}
       /\ \E i \in RowsOfCall(c - 1) : notifications[i].status = "SENT"

\* the channels the routing table gives a severity (names without regard
\* to case)
RoutedChannels(severity) ==
  IF severity \in { "critical", "CRITICAL" } THEN { "EMAIL", "SMS", "PUSH" }
  ELSE IF severity \in { "high", "HIGH" } THEN { "EMAIL", "PUSH" }
  ELSE { "EMAIL" }

\* C30: a createFromAlert call that was not rate-limited has made exactly
\* one row, created PENDING, for each channel of the alert's severity
\* (critical: EMAIL, SMS, PUSH; high: EMAIL, PUSH; anything else, or none:
\* EMAIL) and no other row.
C30_OneRowPerChannel ==
  \A c \in 1..Len(nCalls) :
    ~nCalls[c].limited
    => /\ \A ch \in RoutedChannels(nCalls[c].alert.severity) :
            Cardinality({ i \in RowsOfCall(c) : notifications[i].channel = ch }) = 1
       /\ \A i \in RowsOfCall(c) :
            /\ notifications[i].channel \in RoutedChannels(nCalls[c].alert.severity)
            /\ notifications[i].created = "PENDING"
            /\ notifications[i].alertId = nCalls[c].alert.event_id

\* a critical alert and one written "HIGH", neither rate-limited: five rows
C30_Witness ==
  /\ Len(nCalls) = 2
  /\ npc = "idle"
  /\ ~nCalls[1].limited /\ nCalls[1].alert.severity = "critical"
  /\ ~nCalls[2].limited /\ nCalls[2].alert.severity = "HIGH"
  /\ Cardinality(RowsOfCall(1)) = 3
  /\ Cardinality(RowsOfCall(2)) = 2

\* C37: an alert of a patient whose earlier alerts all lie a full window or
\* more back is not rate-limited, whichever store answered and whichever
\* Redis command failed before.
EarlierCalls(c) ==
  { d \in 1..(c - 1) : nCalls[d].alert.patient_id = nCalls[c].alert.patient_id }

C37_CounterResetAfterWindow ==
  \A c \in 1..Len(nCalls) :
    (\A d \in EarlierCalls(c) : nCalls[d].at + rateLimitWindowMs <= nCalls[c].at)
      => ~nCalls[c].limited

\* C38: every notification is created as PENDING or FAILED, without
\* sentAt; a row that is SENT or FAILED is never written again, so that a
\* PENDING row changes at most once, to SENT or to FAILED; and sentAt is set
\* exactly in the rows whose status is SENT.
NotificationCreatedOrKept ==
  /\ Len(notifications') >= Len(notifications)
  /\ \A i \in 1..Len(notifications') :
       IF i > Len(notifications)
       THEN /\ notifications'[i].status \in { "PENDING", "FAILED" }
            /\ notifications'[i].sentAt = None
       ELSE /\ notifications[i].status # "PENDING" => notifications'[i] = notifications[i]
            /\ notifications'[i].status \in { notifications[i].status, "SENT", "FAILED" }

C38_NotificationLifecycle ==
  /\ [](\A i \in 1..Len(notifications) :
          (notifications[i].sentAt # None) <=> (notifications[i].status = "SENT"))
  /\ [][NotificationCreatedOrKept]_vars

\* of the rows of one alert one was sent and one failed, and a later alert
\* was recorded as FAILED by the limiter
C38_Witness ==
  /\ npc = "idle"
  /\ \E i, j, k \in 1..Len(notifications) :
       /\ notifications[i].call = 1 /\ notifications[i].created = "PENDING"
       /\ notifications[i].status = "SENT" /\ notifications[i].sentAt # None
       /\ notifications[j].call = 1 /\ notifications[j].created = "PENDING"
       /\ notifications[j].status = "FAILED"
       /\ notifications[k].call = 2 /\ notifications[k].created = "FAILED"

\* ------------------------------------------------------------------------
\* Rules Engine (its code is not part of the sources at hand: modelled from
\* section 4.4 of the specification)
\* ------------------------------------------------------------------------
MaxEnriched == 2
MaxPublishFailures == 1

\* thresholds of patient P1 as the Registry holds them
ThresholdsP1 == [heart_rate |-> [max |-> 100], oxygen_saturation |-> [min |-> 95],
                 temperature |-> [max |-> 38]]

\* enriched events: an orphan, and three events of patient P1 (nothing
\* breached; heart rate and oxygen saturation breached; heart rate and
\* temperature breached). vitals maps the metrics present to their values.
RulesInputs ==
  { [event_id |-> "e1", patient_id |-> None, device_id |-> "D9", orphan |-> TRUE,
     thresholds |-> None,
     vitals |-> [m \in { "heart_rate", "oxygen_saturation" } |->
                   IF m = "heart_rate" THEN 130 ELSE 88]],
    [event_id |-> "e2", patient_id |-> "P1", device_id |-> "D1", orphan |-> FALSE,
     thresholds |-> ThresholdsP1,
     vitals |-> [m \in { "heart_rate", "oxygen_saturation" } |->
                   IF m = "heart_rate" THEN 72 ELSE 98]],
    [event_id |-> "e3", patient_id |-> "P1", device_id |-> "D1", orphan |-> FALSE,
     thresholds |-> ThresholdsP1,
     vitals |-> [m \in { "heart_rate", "oxygen_saturation" } |->
                   IF m = "heart_rate" THEN 130 ELSE 88]],
    [event_id |-> "e4", patient_id |-> "P1", device_id |-> "D1", orphan |-> FALSE,
     thresholds |-> ThresholdsP1,
     vitals |-> [m \in { "heart_rate", "temperature" } |->
                   IF m = "heart_rate" THEN 110 ELSE 39]] }

\* constants of the combined rule R4
hr_very_high == 120
spo2_low == 90

Has(ev, m) == m \in DOMAIN ev.vitals

\* the rules that fire on a non-orphan event, for the vitals present
Fires(rule, ev) ==
  CASE rule = "R1" -> Has(ev, "heart_rate")
                      /\ ev.vitals["heart_rate"] > ev.thresholds.heart_rate.max
    [] rule = "R2" -> Has(ev, "oxygen_saturation")
                      /\ ev.vitals["oxygen_saturation"] < ev.thresholds.oxygen_saturation.min
    [] rule = "R3" -> Has(ev, "temperature")
                      /\ ev.vitals["temperature"] > ev.thresholds.temperature.max
    [] rule = "R4" -> Has(ev, "heart_rate") /\ Has(ev, "oxygen_saturation")
                      /\ ev.vitals["heart_rate"] > hr_very_high
                      /\ ev.vitals["oxygen_saturation"] < spo2_low

\* rules are evaluated for non-orphan events only
RulesTriggered(ev) ==
  IF ev.orphan THEN {} ELSE { rule \in { "R1", "R2", "R3", "R4" } : Fires(rule, ev) }

RuleSeverity(rule) == IF rule \in { "R2", "R4" } THEN "critical" ELSE "warning"

\* the ordering ok < low < medium < warning < high < critical
SeverityRank(sev) ==
  CASE sev = "ok" -> 0 [] sev = "low" -> 1 [] sev = "medium" -> 2
    [] sev = "warning" -> 3 [] sev = "high" -> 4 [] sev = "critical" -> 5

\* what Anomaly.ScoreVitals can give for an event: a severity, or a failure
\* or timeout of the call; it is not called for an orphan
AnomalyOutcomes(ev) ==
  IF ev.orphan THEN { "skipped" } ELSE { "normal", "low", "high", "failed" }

\* the severity derived from the anomaly outcome: normal is ok; a call that
\* failed or was skipped contributes scores of 0
AnomalySeverity(anomaly) ==
  IF anomaly \in { "normal", "failed", "skipped" } THEN "ok" ELSE anomaly

\* per-event severity: the maximum of the rule severities and of the
\* anomaly-derived severity
OverallSeverity(ev, anomaly) ==
  LET all == { RuleSeverity(rule) : rule \in RulesTriggered(ev) } \cup { AnomalySeverity(anomaly) }
  IN CHOOSE sev \in all : \A other \in all : SeverityRank(other) <= SeverityRank(sev)

\* Faulty variant: an alert is emitted for every event.
WantsAlert_always(sev) == TRUE

\* an alert is emitted iff the severity is not ok
WantsAlert(sev) == sev # "ok"

ScoredEvent(ev, sev, anomaly) ==
  [source_event_id |-> ev.event_id, patient_id |-> ev.patient_id, device_id |-> ev.device_id,
   severity |-> sev, rulesTriggered |-> RulesTriggered(ev),
   anomaly_degraded |-> anomaly = "failed"]

AlertOf(ev, sev) ==
  [source_event_id |-> ev.event_id, patient_id |-> ev.patient_id, device_id |-> ev.device_id,
   severity |-> sev, alert_type |-> "vital_sign_anomaly", rulesTriggered |-> RulesTriggered(ev)]

\* the upstream stage writes an enriched event
ProduceEnriched ==
  /\ Len(rEnriched) < MaxEnriched
  /\ \E ev \in RulesInputs : rEnriched' = Append(rEnriched, ev)
  /\ UNCHANGED << rOffset, scored, alertsRaised, rRuns >>
  /\ UNCHANGED notRules

FailedRuns == Cardinality({ k \in 1..Len(rRuns) : ~rRuns[k].acked })

\* the handler for the record at the committed offset: score, evaluate,
\* publish the scored event and, if wanted, the alert. Both publishes are
\* attempted; the offset is committed only when every publish succeeded,
\* otherwise the record is delivered again.
RulesEachMessage ==
  /\ rOffset < Len(rEnriched)
  /\ LET ev == rEnriched[rOffset + 1]
     IN \E anomaly \in AnomalyOutcomes(ev), okScored \in BOOLEAN, okAlert \in BOOLEAN :
          LET sev   == OverallSeverity(ev, anomaly)
              alert == WantsAlert(sev)
              acked == okScored /\ (alert => okAlert)
          IN /\ (alert \/ okAlert)
             /\ (acked \/ FailedRuns < MaxPublishFailures)
             /\ scored' = IF okScored THEN Append(scored, ScoredEvent(ev, sev, anomaly))
                          ELSE scored
             /\ alertsRaised' = IF alert /\ okAlert THEN Append(alertsRaised, AlertOf(ev, sev))
                                ELSE alertsRaised
             /\ rOffset' = IF acked THEN rOffset + 1 ELSE rOffset
             /\ rRuns' = Append(rRuns,
                           [idx      |-> rOffset + 1,
                            scoredAt |-> IF okScored THEN Len(scored) + 1 ELSE 0,
                            alertAt  |-> IF alert /\ okAlert THEN Len(alertsRaised) + 1 ELSE 0,
                            acked    |-> acked])
  /\ UNCHANGED rEnriched
  /\ UNCHANGED notRules

InitRules ==
  /\ RulesAtRest
  /\ EnricherAtRest
  /\ GatewayAtRest
  /\ ShutdownAtRest
  /\ IncidentAtRest
  /\ NotifierAtRest
  /\ NormalizerAtRest

NextRules ==
  \/ ProduceEnriched
  \/ RulesEachMessage

SpecRules == InitRules /\ [][NextRules]_vars

\* the runs that ended with the commit of their input
AckedRuns == { k \in 1..Len(rRuns) : rRuns[k].acked }

\* C25: every input the Rules Engine has consumed has a run that published
\* a scored event for it; that run published an alert for the input iff the
\* severity of the scored event is not ok, with that severity; and an orphan
\* input is scored ok and gets no alert.
C25_ScoredAlwaysAlertIffNotOk ==
  /\ \A i \in 1..rOffset : \E k \in AckedRuns : rRuns[k].idx = i
  /\ \A k \in AckedRuns :
       LET ev == rEnriched[rRuns[k].idx]
       IN /\ rRuns[k].scoredAt > 0
          /\ scored[rRuns[k].scoredAt].source_event_id = ev.event_id
          /\ (rRuns[k].alertAt > 0) <=> (scored[rRuns[k].scoredAt].severity # "ok")
          /\ rRuns[k].alertAt > 0
             => /\ alertsRaised[rRuns[k].alertAt].source_event_id = ev.event_id
                /\ alertsRaised[rRuns[k].alertAt].severity = scored[rRuns[k].scoredAt].severity
          /\ ev.orphan => (scored[rRuns[k].scoredAt].severity = "ok" /\ rRuns[k].alertAt = 0)
  /\ \A j \in 1..Len(alertsRaised) : alertsRaised[j].severity # "ok"

\* an orphan and a breaching event both consumed: one alert, two scored events
C25_Witness ==
  /\ rOffset = 2
  /\ rEnriched[1].orphan
  /\ rEnriched[2].event_id = "e3"
  /\ Len(scored) = 2
  /\ Len(alertsRaised) = 1
  /\ alertsRaised[1].severity = "critical"
  /\ scored[1].severity = "ok"

\* ------------------------------------------------------------------------
\* Normalizer (its code is not part of the sources at hand: modelled from
\* section 4.2 of the specification). Measurement values of this section
\* are in tenths of the unit: 986 is 98.6.
\* ------------------------------------------------------------------------
MaxRaw == 2

\* bodies of POST /api/telemetry: the happy path (hr 72, spo2 98, temp 98.6),
\* a heart rate of 500, and a temperature of 120.0
NormalizerHttpBodies ==
  { [deviceId |-> "D1", timestamp |-> IsoTimestamp,
     metrics |-> { <<"hr", 720>>, <<"spo2", 980>>, <<"temp", 986>> }],
    [deviceId |-> "D1", timestamp |-> IsoTimestamp, metrics |-> { <<"hr", 5000>> }],
    [deviceId |-> "D2", timestamp |-> IsoTimestamp, metrics |-> { <<"temp", 1200>> }] }

\* a raw event of another producer: aliases, a Celsius temperature, a metric
\* the Normalizer does not know, a timestamp that does not parse
OtherRawEvents ==
  { [event_id |-> "r9", trace_id |-> "trace_r9", event_type |-> "telemetry.raw",
     timestamp |-> "yesterday", device_id |-> "D2",
     measurements |-> << [metric |-> "Temp", value |-> 370, unit |-> "celsius"],
                         [metric |-> "pulse", value |-> 700, unit |-> "bpm"],
                         [metric |-> "glucose", value |-> 55, unit |-> "mmol" ] >>] }

\* 1. name canonicalization: lower-cased, mapped through the alias table;
\* "" for a metric that is not known (dropped)
CanonicalMetric(name) ==
  CASE name \in { "heart_rate", "hr", "heartrate", "pulse" } -> "heart_rate"
    [] name \in { "oxygen_saturation", "spo2", "o2sat", "o2" } -> "oxygen_saturation"
    [] name \in { "temperature", "temp", "Temp", "body_temp" } -> "temperature"
    [] OTHER -> ""

\* Faulty variant: the Celsius window is applied whatever the unit.
ClampWindow_celsiusOnly(metric, unit) ==
  CASE metric = "heart_rate" -> [lo |-> 200, hi |-> 2400]
    [] metric = "oxygen_saturation" -> [lo |-> 500, hi |-> 1000]
    [] metric = "temperature" -> [lo |-> 300, hi |-> 450]

\* 3. the clamp window of a metric: heart_rate [20, 240], oxygen_saturation
\* [50, 100], temperature [30, 45] in Celsius or the analogous Fahrenheit
\* window [86, 113]
ClampWindow(metric, unit) ==
  CASE metric = "heart_rate" -> [lo |-> 200, hi |-> 2400]
    [] metric = "oxygen_saturation" -> [lo |-> 500, hi |-> 1000]
    [] metric = "temperature" ->
         IF unit = "fahrenheit" THEN [lo |-> 860, hi |-> 1130] ELSE [lo |-> 300, hi |-> 450]

Clamp(value, window) ==
  IF value < window.lo THEN window.lo
  ELSE IF value > window.hi THEN window.hi
  ELSE value

\* a measurement with its canonical name, its unit as declared (2. no
\* conversion) and its value clamped
NormalizeMeasurement(m) ==
  [metric |-> CanonicalMetric(m.metric), unit |-> m.unit,
   value |-> Clamp(m.value, ClampWindow(CanonicalMetric(m.metric), m.unit))]

RECURSIVE NormalizeVitals(_)
NormalizeVitals(ms) ==
  IF ms = << >> THEN << >>
  ELSE IF CanonicalMetric(Head(ms).metric) = "" THEN NormalizeVitals(Tail(ms))
  ELSE << NormalizeMeasurement(Head(ms)) >> \o NormalizeVitals(Tail(ms))

\* whether a measurement that is kept had its value changed by the clamp
WasClamped(ms) ==
  \E i \in 1..Len(ms) :
    /\ CanonicalMetric(ms[i].metric) # ""
    /\ NormalizeMeasurement(ms[i]).value # ms[i].value

\* 4. an ISO-8601 timestamp is kept; one that does not parse is replaced by
\* the current instant
TimestampParses(ts) == ts = IsoTimestamp

NormIdPool == << "z1", "z2", "z3", "z4", "z5", "z6", "z7", "z8" >>

\* 5. the normalized event made from a raw event, n events having been made
\* before
NormalizeEvent(ev, n) ==
  [event_id          |-> NormIdPool[n + 1],
   source_event_id   |-> ev.event_id,
   trace_id          |-> ev.trace_id,
   event_type        |-> "telemetry.normalized",
   timestamp         |-> IF TimestampParses(ev.timestamp) THEN ev.timestamp ELSE Now,
   device_id         |-> ev.device_id,
   vitals            |-> NormalizeVitals(ev.measurements),
   validation_status |-> IF ~TimestampParses(ev.timestamp) THEN "timestamp_substituted"
                         ELSE IF WasClamped(ev.measurements) THEN "clamped"
                         ELSE "valid"]

\* the Gateway accepts a POST /api/telemetry and writes its raw event
\* (transformToKafkaEvent and the record of produceRawTelemetry)
GatewayPublishesHttp ==
  /\ Len(zRaw) < MaxRaw
  /\ \E body \in NormalizerHttpBodies :
       zRaw' = Append(zRaw, RawRecord(TransformToKafkaEvent(body, 2 * Len(zRaw))))
  /\ UNCHANGED << zOffset, zNormalized, zFailures >>
  /\ UNCHANGED notNormalizer

\* another producer writes a raw event
OtherPublishes ==
  /\ Len(zRaw) < MaxRaw
  /\ \E ev \in OtherRawEvents : zRaw' = Append(zRaw, RawRecord(ev))
  /\ UNCHANGED << zOffset, zNormalized, zFailures >>
  /\ UNCHANGED notNormalizer

\* the handler for the record at the committed offset: normalize, publish
\* with the key of the input; the offset is committed only when the publish
\* succeeded, otherwise the record is delivered again
NormalizerEachMessage ==
  /\ zOffset < Len(zRaw)
  /\ LET rec == zRaw[zOffset + 1]
     IN \E ok \in BOOLEAN :
          /\ (ok \/ zFailures < MaxPublishFailures)
          /\ zNormalized' = IF ok
                            THEN Append(zNormalized,
                                        [key |-> rec.key, in_offset |-> zOffset + 1,
                                         value |-> NormalizeEvent(rec.value, Len(zNormalized))])
                            ELSE zNormalized
          /\ zOffset' = IF ok THEN zOffset + 1 ELSE zOffset
          /\ zFailures' = IF ok THEN zFailures ELSE zFailures + 1
  /\ UNCHANGED zRaw
  /\ UNCHANGED notNormalizer

InitNormalizer ==
  /\ NormalizerAtRest
  /\ EnricherAtRest
  /\ GatewayAtRest
  /\ ShutdownAtRest
  /\ IncidentAtRest
  /\ NotifierAtRest
  /\ RulesAtRest

NextNormalizer ==
  \/ GatewayPublishesHttp
  \/ OtherPublishes
  \/ NormalizerEachMessage

SpecNormalizer == InitNormalizer /\ [][NextNormalizer]_vars

\* the happy-path measurements as the Gateway writes them
HappyPathMeasurements ==
  << [metric |-> "heart_rate", value |-> 720, unit |-> "bpm"],
     [metric |-> "oxygen_saturation", value |-> 980, unit |-> "percent"],
     [metric |-> "temperature", value |-> 986, unit |-> "fahrenheit"] >>

====
